---- MODULE Spec2Model ----
(***************************************************************************)
(* Model of the area / mode resolution core of nbroutes-util:              *)
(*   src/src/lib.rs    find_area, find_service, map_mode                   *)
(*   src/src/coord.rs  Coord::coord, Coord::coords, Coord::coords_to_str,  *)
(*                     Locatable::locate, Locatable::is_in_polygons        *)
(*   src/src/util.rs   parse_list, encode_list, Area, AreaFlexible         *)
(*                                                                         *)
(* Option<T> is modelled as a sequence: <<>> is None, <<x>> is Some(x).    *)
(* Result<T> is a record [kind, val]: kind is "Ok", "Err" (val is the      *)
(* error message) or "Panic" (the call unwinds, val names the panic).      *)
(***************************************************************************)
EXTENDS Integers, Sequences, FiniteSets, TLC

VARIABLES
    pc,                   \* "start" before the call, "done" after it
    op,                   \* name of the operation that ran ("" before)
    mode,                 \* Option<String>: requested mode
    is_flexible_request,  \* bool
    area,                 \* map_mode: the Area
    other,                \* map_mode: a second Area, for comparisons
    mapped,               \* map_mode(mode, area, is_flexible_request)
    mapped_other,         \* map_mode(mode, other, is_flexible_request)
    input,                \* &str: the text given to coords / parse_list
    xs,                   \* Vec<f64>: the list given to encode_list
    cs,                   \* Vec<Coord>: the list given to coords_to_str
    encoded,              \* Option<String>: what encode_list / coords_to_str returned
    parsed,               \* Result<Vec<_>>: what coords / parse_list returned
    point,                \* Coord: the receiver of is_in_polygons / locate
    polys,                \* Vec<Polygon<f64>>: the polygon list of one area
    inside,               \* what is_in_polygons(point, polys) returned
    located,              \* what locate returned for the one area owning polys
    areas,                \* Vec<Area>: the area list, in registry order
    polygons,             \* HashMap<String, Vec<Polygon<f64>>>: the polygon store
    coords_in,            \* Vec<Coord>: the input points of find_area
    tolerate_outlier,     \* bool
    found,                \* what find_area / find_service returned
    cfg_areas,            \* MaaasAreaConfig::areas, Vec<ConfigArea>
    parsed_areas,         \* MaaasAreaConfig::parsed_areas
    inited,               \* MaaasAreaConfig::inited
    borrow,               \* the caller that holds &mut MaaasAreaConfig, 0 when free
    call,                 \* per caller: position in init() / polygons() and argument
    ac_ret,               \* the last value returned by init() / polygons()
    builds,               \* how often the build loop of init() was entered (saturating)
    builder,              \* the caller that completed the build, 0 before
    stale,                \* areas was mutated after a build had started
    lp_areas,             \* load_polygons: the requested area names (HashSet)
    skip_maaas,           \* load_polygons: bool
    remote_ok,            \* load_maaas_area_config() returned Ok (its value is cfg_areas)
    local_files,          \* area name -> Option<lines of <data_root>/mojo/borders/<name>.poly>
    lp_todo,              \* the area names the loop has not visited yet
    lp_polygons,          \* the map under construction
    lp_src,               \* area name -> "maaas" / "local": where its polygons came from
    lp_ret,               \* what load_polygons returned
    em_engine,            \* handle_error_message: engine
    em_code,              \* handle_error_message: code
    em_message,           \* handle_error_message: message
    em_ret,               \* what handle_error_message returned
    be_rows,              \* MatrixOutput::rows
    be_ret,               \* what binary_encode returned
    lk_clusters,          \* MaaasConfig::clusters
    lk_cluster_id,        \* lookup: cluster_id
    lk_nbroute,           \* lookup: nbroute
    lk_ret,               \* what lookup returned
    status_map,           \* STATUS: HashMap<String, MassiveDistanceMatrixStatus>
    clock,                \* SystemTime::now(), in ms since the epoch
    ms_arg,               \* <<task_id, chunk_id>> of the last get_status / set_status
    ms_ret,               \* what the last get_status returned
    ev_pc,                \* evict: "idle", or "removing" between its two phases
    delete_list,          \* evict: the keys still to remove
    ev_now,               \* evict: now_time
    ev_before,            \* the cache when evict took its scan
    ev_dirty,             \* set_status ran while evict was between scan and end
    pf_blocks,            \* the blocks a .poly file describes: their vertices, in file order
    pf_lines,             \* the lines of the .poly file
    pf_point,             \* Coord: a point tested against the parsed polygons
    pf_ret,               \* what _load returned
    pf_inside,            \* what is_in_polygons(pf_point, parsed polygons) returned
    ks_last,              \* <<task_id, chunk_id>> -> the status that set_status stored last
    ks_parsed             \* what parse_uniq_key returned

mmVars == <<area, other, mapped, mapped_other>>
cdVars == <<input, xs, cs, encoded, parsed>>
pgVars == <<point, polys, inside, located>>
faVars == <<areas, polygons, coords_in, tolerate_outlier, found>>
rqVars == <<mode, is_flexible_request>>
acVars == <<cfg_areas, parsed_areas, inited, borrow, call, ac_ret, builds, builder, stale>>
coreVars == <<rqVars, mmVars, cdVars, pgVars, faVars>>
lpVars == <<lp_areas, skip_maaas, remote_ok, local_files, lp_todo, lp_polygons, lp_src, lp_ret>>
emVars == <<em_engine, em_code, em_message, em_ret>>
beVars == <<be_rows, be_ret>>
lkVars == <<lk_clusters, lk_cluster_id, lk_nbroute, lk_ret>>
msVars == <<status_map, clock, ms_arg, ms_ret, ev_pc, delete_list, ev_now, ev_before, ev_dirty>>
pfVars == <<pf_blocks, pf_lines, pf_point, pf_ret, pf_inside>>
ksVars == <<ks_last, ks_parsed>>
laterVars == <<acVars, lpVars, emVars, beVars, lkVars, msVars, pfVars, ksVars>>
vars == <<pc, op, coreVars, laterVars>>

\* What the actions of one component leave unchanged in the other components.
acRest == <<pc, coreVars, lpVars, emVars, beVars, lkVars, msVars, pfVars, ksVars>>
lpRest == <<coreVars, borrow, call, ac_ret, builds, builder, stale, emVars, beVars, lkVars,
            msVars, pfVars, ksVars>>
emRest == <<coreVars, acVars, lpVars, beVars, lkVars, msVars, pfVars, ksVars>>
beRest == <<coreVars, acVars, lpVars, emVars, lkVars, msVars, pfVars, ksVars>>
lkRest == <<coreVars, acVars, lpVars, emVars, beVars, msVars, pfVars, ksVars>>
msRest == <<pc, coreVars, acVars, lpVars, emVars, beVars, lkVars, pfVars, ksVars>>
pfRest == <<coreVars, acVars, lpVars, emVars, beVars, lkVars, msVars, ksVars>>

None == <<>>
Some(x) == <<x>>
Ok(v) == [kind |-> "Ok", val |-> v]
Err(msg) == [kind |-> "Err", val |-> msg]
NoResult == [kind |-> "NotCalled", val |-> ""]

\* The variables of a component that a specification does not exercise.
IdleArea == [name |-> "", default_service |-> "", mappings |-> <<>>, flexible_setting |-> None]
IdleMapMode ==
    /\ area = IdleArea /\ other = IdleArea
    /\ mapped = NoResult /\ mapped_other = NoResult
IdleCoord ==
    /\ input = <<>> /\ xs = <<>> /\ cs = <<>>
    /\ encoded = None /\ parsed = NoResult
IdlePoly ==
    /\ point = [lat |-> 0, lng |-> 0] /\ polys = <<>>
    /\ inside = NoResult /\ located = NoResult
IdleFindArea ==
    /\ areas = <<>> /\ polygons = <<>> /\ coords_in = <<>>
    /\ tolerate_outlier = FALSE /\ found = NoResult
IdleAreaConfig ==
    /\ cfg_areas = <<>> /\ parsed_areas = <<>> /\ inited = FALSE
    /\ borrow = 0 /\ call = <<>> /\ ac_ret = NoResult
    /\ builds = 0 /\ builder = 0 /\ stale = FALSE
IdleLoadPolygons ==
    /\ lp_areas = {} /\ skip_maaas = FALSE /\ remote_ok = FALSE
    /\ local_files = <<>> /\ lp_todo = {} /\ lp_polygons = <<>>
    /\ lp_src = <<>> /\ lp_ret = NoResult
IdleErrorMessage ==
    /\ em_engine = "" /\ em_code = "" /\ em_message = "" /\ em_ret = NoResult
IdleBinaryEncode == be_rows = <<>> /\ be_ret = NoResult
IdleLookup ==
    /\ lk_clusters = <<>> /\ lk_cluster_id = "" /\ lk_nbroute = "" /\ lk_ret = NoResult
IdleStatus ==
    /\ status_map = <<>> /\ clock = 0 /\ ms_arg = <<>> /\ ms_ret = NoResult
    /\ ev_pc = "idle" /\ delete_list = {} /\ ev_now = 0 /\ ev_before = <<>>
    /\ ev_dirty = FALSE
IdlePolyFile ==
    /\ pf_blocks = <<>> /\ pf_lines = <<>> /\ pf_point = [lat |-> 0, lng |-> 0]
    /\ pf_ret = NoResult /\ pf_inside = NoResult
IdleKeys == ks_last = <<>> /\ ks_parsed = NoResult
IdleCore ==
    /\ mode = None /\ is_flexible_request = FALSE
    /\ IdleMapMode /\ IdleCoord /\ IdlePoly /\ IdleFindArea
IdleLater ==
    /\ IdleAreaConfig /\ IdleLoadPolygons /\ IdleErrorMessage
    /\ IdleBinaryEncode /\ IdleLookup /\ IdleStatus /\ IdlePolyFile /\ IdleKeys

(***************************************************************************)
(* map_mode, src/src/lib.rs:442-478                                        *)
(***************************************************************************)

\* A tier is the pair (default_mode, mappings) that map_mode works on.
Tier(default_mode, mappings) == [default_service |-> default_mode, mappings |-> mappings]

\* lib.rs:443-444, the base tier of an area.
base_tier(a) == Tier(a.default_service, a.mappings)

\* Mutant: the flexible flag is ignored and the base tier is always used.
active_tier_ignores_flexible(a, flexible) == Some(base_tier(a))

\* Mutant: the flexible tier is used whenever the area has one.
active_tier_prefers_flexible(a, flexible) ==
    IF a.flexible_setting # None
    THEN Some(Tier(a.flexible_setting[1].default_service, a.flexible_setting[1].mappings))
    ELSE IF flexible THEN None ELSE Some(base_tier(a))

\* lib.rs:443-454: the tier map_mode uses; None when a flexible request meets
\* an area without flexible_setting (the bail! of line 448).
active_tier(a, flexible) ==
    IF flexible
    THEN IF a.flexible_setting = None
         THEN None
         ELSE Some(Tier(a.flexible_setting[1].default_service,
                        a.flexible_setting[1].mappings))
    ELSE Some(base_tier(a))

\* Mutant: the default-name comparison is made before the mappings lookup.
lookup_mode_default_first(m, default_mode, mappings) ==
    IF m # None /\ m[1] # ""
    THEN IF m[1] = default_mode
         THEN Ok(default_mode)
         ELSE IF m[1] \in DOMAIN mappings
              THEN Ok(mappings[m[1]])
              ELSE Err("invalid mode input")
    ELSE IF default_mode = "" THEN Err("area not supported") ELSE Ok(default_mode)

\* Mutant: the empty default is returned instead of "area not supported",
\* and a requested mode is looked up in the mappings first even when absent.
lookup_mode_no_empty_check(m, default_mode, mappings) ==
    IF m # None /\ m[1] # ""
    THEN IF m[1] \in DOMAIN mappings
         THEN Ok(mappings[m[1]])
         ELSE IF m[1] = default_mode THEN Ok(default_mode) ELSE Err("invalid mode input")
    ELSE IF default_mode \in DOMAIN mappings THEN Ok(mappings[default_mode]) ELSE Ok(default_mode)

\* lib.rs:456-477: the lookup in the chosen tier.
lookup_mode(m, default_mode, mappings) ==
    IF m # None /\ m[1] # ""
    THEN IF m[1] \in DOMAIN mappings
         THEN Ok(mappings[m[1]])
         ELSE IF m[1] = default_mode
              THEN Ok(default_mode)
              ELSE Err("invalid mode input")
    ELSE IF default_mode = "" THEN Err("area not supported") ELSE Ok(default_mode)

\* lib.rs:442-478
map_mode(m, a, flexible) ==
    LET tier == active_tier(a, flexible)
    IN  IF tier = None
        THEN Err("option=flexible not supported for this area")
        ELSE lookup_mode(m, tier[1].default_service, tier[1].mappings)

(***************************************************************************)
(* Input domains of the map_mode specification                             *)
(***************************************************************************)
ModeNames == {"car", "4w"}
BackendModes == {"4w", "6w"}
DefaultServices == {"", "4w"}
RequestedModes == {None, Some(""), Some("car"), Some("4w"), Some("truck")}

Mappings == UNION {[D -> BackendModes] : D \in SUBSET ModeNames}
Tiers == {Tier(d, mp) : d \in DefaultServices, mp \in Mappings}
FlexibleSettings == {None} \cup {Some(t) : t \in Tiers}

\* util.rs:68-80 (Area) and util.rs:83-88 (AreaFlexible); the fields that
\* map_mode and find_area read.
MkArea(name, t, fs) ==
    [name |-> name, default_service |-> t.default_service,
     mappings |-> t.mappings, flexible_setting |-> fs]

MapAreas == {MkArea("sg", t, fs) : t \in Tiers, fs \in FlexibleSettings}

\* The areas that differ from a in at most one of the two tiers.
OneTierVariants(a) ==
    {MkArea(a.name, t, a.flexible_setting) : t \in Tiers}
        \cup {MkArea(a.name, base_tier(a), fs) : fs \in FlexibleSettings}

InitMapMode ==
    /\ IdleLater
    /\ pc = "start"
    /\ op = ""
    /\ mode \in RequestedModes
    /\ is_flexible_request \in BOOLEAN
    /\ area \in MapAreas
    /\ other \in OneTierVariants(area)
    /\ mapped = NoResult
    /\ mapped_other = NoResult
    /\ IdleCoord /\ IdlePoly /\ IdleFindArea

CallMapMode ==
    /\ pc = "start"
    /\ pc' = "done"
    /\ op' = "map_mode"
    /\ mapped' = map_mode(mode, area, is_flexible_request)
    /\ mapped_other' = map_mode(mode, other, is_flexible_request)
    /\ UNCHANGED <<rqVars, area, other, cdVars, pgVars, faVars, laterVars>>

NextMapMode == CallMapMode

SpecMapMode == InitMapMode /\ [][NextMapMode]_vars

(***************************************************************************)
(* Claims about map_mode (checked under SpecMapMode)                       *)
(***************************************************************************)

NoModeRequested == mode = None \/ mode = Some("")

\* C5: with no requested mode (None or the empty string) map_mode returns the
\* active tier's default_service when it is non-empty and fails with "area
\* not supported" when it is empty; in particular map_mode(None, area, false)
\* is area.default_service whenever that is non-empty, whatever the mappings.
C5_DefaultWhenNoMode ==
    (pc = "done" /\ op = "map_mode" /\ NoModeRequested) =>
        /\ ~is_flexible_request =>
              mapped = IF area.default_service # ""
                       THEN Ok(area.default_service)
                       ELSE Err("area not supported")
        /\ (is_flexible_request /\ area.flexible_setting # None) =>
              mapped = IF area.flexible_setting[1].default_service # ""
                       THEN Ok(area.flexible_setting[1].default_service)
                       ELSE Err("area not supported")

\* C5 witness: map_mode(None, area, false) ran on an area whose mappings have
\* the default name as a key mapped to another backend mode.
C5_Witness ==
    /\ pc = "done" /\ op = "map_mode"
    /\ mode = None /\ ~is_flexible_request
    /\ area.default_service = "4w"
    /\ "4w" \in DOMAIN area.mappings /\ area.mappings["4w"] = "6w"
    /\ mapped = Ok("4w")

\* C6: with a non-empty requested mode m map_mode returns mappings[m] when m
\* is a key of the active tier's mappings (also when m is the default name),
\* else the default mode when m equals the tier's default_service, else it
\* fails with "invalid mode input"; there is no other outcome.
C6_RequestedModeLookup ==
    (pc = "done" /\ op = "map_mode" /\ ~NoModeRequested
        /\ (is_flexible_request => area.flexible_setting # None)) =>
        LET m == mode[1]
            d == IF is_flexible_request
                 THEN area.flexible_setting[1].default_service
                 ELSE area.default_service
            mp == IF is_flexible_request
                  THEN area.flexible_setting[1].mappings
                  ELSE area.mappings
        IN  /\ m \in DOMAIN mp => mapped = Ok(mp[m])
            /\ (m \notin DOMAIN mp /\ m = d) => mapped = Ok(d)
            /\ (m \notin DOMAIN mp /\ m # d) => mapped = Err("invalid mode input")

\* C6 witness: the requested mode is both a key of the mappings and the
\* default name, and the mapped backend mode (not the default) was returned.
C6_Witness ==
    /\ pc = "done" /\ op = "map_mode"
    /\ mode = Some("4w") /\ ~is_flexible_request
    /\ area.default_service = "4w"
    /\ "4w" \in DOMAIN area.mappings /\ area.mappings["4w"] = "6w"
    /\ mapped = Ok("6w")

\* C7: a flexible request fails for every mode when the area has no
\* flexible_setting, and otherwise its result is a function of the
\* flexible_setting alone (areas that differ only in the base tier agree);
\* a non-flexible request is never influenced by the flexible tier.
C7_TierIsolation ==
    (pc = "done" /\ op = "map_mode") =>
        /\ (is_flexible_request /\ area.flexible_setting = None) =>
              mapped.kind = "Err"
        /\ (is_flexible_request /\ area.flexible_setting = other.flexible_setting) =>
              mapped = mapped_other
        /\ (~is_flexible_request /\ base_tier(area) = base_tier(other)) =>
              mapped = mapped_other

\* C7 witness: a flexible request on two areas with the same flexible tier
\* whose base tiers would give different answers.
C7_Witness ==
    /\ pc = "done" /\ op = "map_mode"
    /\ is_flexible_request /\ mode = Some("car")
    /\ area.flexible_setting # None
    /\ area.flexible_setting = other.flexible_setting
    /\ "car" \in DOMAIN area.mappings /\ "car" \notin DOMAIN other.mappings
    /\ mapped.kind = "Ok" /\ mapped = mapped_other
    /\ mapped # map_mode(mode, area, FALSE)

(***************************************************************************)
(* Text and numbers.  A string is a sequence of one-character strings.     *)
(* An f64 is modelled as the decimal m / 10^e, kept normalised (e = 0 or   *)
(* m not a multiple of 10), so equal numbers are equal records; this is    *)
(* exact for the short decimals of the model, and 0 and -0 are one value   *)
(* as they are under f64 equality.                                         *)
(***************************************************************************)
Digits == <<"0", "1", "2", "3", "4", "5", "6", "7", "8", "9">>
IsDigit(c) == \E d \in DOMAIN Digits : Digits[d] = c
DigitVal(c) == (CHOOSE d \in DOMAIN Digits : Digits[d] = c) - 1

RECURSIVE Pow10(_)
Pow10(e) == IF e = 0 THEN 1 ELSE 10 * Pow10(e - 1)

RECURSIVE digits_value(_)
digits_value(ds) ==
    IF ds = <<>> THEN 0
    ELSE 10 * digits_value(SubSeq(ds, 1, Len(ds) - 1)) + DigitVal(ds[Len(ds)])

RECURSIVE normalize(_, _)
normalize(m, e) ==
    IF e > 0 /\ m % 10 = 0 THEN normalize(m \div 10, e - 1) ELSE [m |-> m, e |-> e]

\* Mutant: Rust's split_terminator, which drops a trailing empty piece.
RECURSIVE split_terminator_from(_, _, _, _)
split_terminator_from(s, sep, i, cur) ==
    IF i > Len(s) THEN (IF cur = <<>> THEN <<>> ELSE <<cur>>)
    ELSE IF s[i] = sep
         THEN <<cur>> \o split_terminator_from(s, sep, i + 1, <<>>)
         ELSE split_terminator_from(s, sep, i + 1, Append(cur, s[i]))
split_terminator(s, sep) == split_terminator_from(s, sep, 1, <<>>)

\* str::split on a one-character pattern, as used at coord.rs:16, coord.rs:28
\* and util.rs:13: the pieces between the separators, "" gives [""].
RECURSIVE split_from(_, _, _, _)
split_from(s, sep, i, cur) ==
    IF i > Len(s) THEN <<cur>>
    ELSE IF s[i] = sep
         THEN <<cur>> \o split_from(s, sep, i + 1, <<>>)
         ELSE split_from(s, sep, i + 1, Append(cur, s[i]))
split(s, sep) == split_from(s, sep, 1, <<>>)

\* Mutant: a join that also terminates the last piece with the separator.
RECURSIVE join_terminated(_, _)
join_terminated(strs, sep) ==
    IF strs = <<>> THEN <<>>
    ELSE Head(strs) \o <<sep>> \o join_terminated(Tail(strs), sep)

\* [String]::join, as used at coord.rs:41 and util.rs:27.
RECURSIVE join(_, _)
join(strs, sep) ==
    IF strs = <<>> THEN <<>>
    ELSE IF Len(strs) = 1 THEN Head(strs)
    ELSE Head(strs) \o <<sep>> \o join(Tail(strs), sep)

\* str::parse::<f64> (coord.rs:19-20, util.rs:15) on the decimal literals
\* [+-]digits[.digits] with at least one digit; no exponent, inf or nan.
parse_f64(s) ==
    LET signed == Len(s) > 0 /\ s[1] \in {"-", "+"}
        body == IF signed THEN Tail(s) ELSE s
        dots == {i \in 1..Len(body) : body[i] = "."}
        dot == IF dots = {} THEN Len(body) + 1 ELSE CHOOSE i \in dots : TRUE
        ip == SubSeq(body, 1, dot - 1)
        fp == SubSeq(body, dot + 1, Len(body))
        mag == digits_value(ip \o fp)
    IN  IF s = <<>> THEN Err("cannot parse float from empty string")
        ELSE IF \/ Cardinality(dots) > 1
                \/ \E i \in 1..Len(body) : body[i] # "." /\ ~IsDigit(body[i])
                \/ Len(body) - Cardinality(dots) = 0
             THEN Err("invalid float literal")
             ELSE Ok(normalize(IF s[1] = "-" THEN 0 - mag ELSE mag, Len(fp)))

RECURSIVE nat_digits(_)
nat_digits(n) ==
    IF n < 10 THEN <<Digits[n + 1]>>
    ELSE nat_digits(n \div 10) \o <<Digits[(n % 10) + 1]>>

RECURSIVE frac_digits(_, _)
frac_digits(f, e) ==
    IF e = 0 THEN <<>> ELSE frac_digits(f \div 10, e - 1) \o <<Digits[(f % 10) + 1]>>

\* f64's Display (format!("{}") at coord.rs:38, to_string at util.rs:26): the
\* shortest decimal that reads back as the same number, without exponent and
\* without a fraction for an integer.
format_f64(v) ==
    LET mag == IF v.m < 0 THEN 0 - v.m ELSE v.m
    IN  (IF v.m < 0 THEN <<"-">> ELSE <<>>)
            \o nat_digits(mag \div Pow10(v.e))
            \o (IF v.e = 0 THEN <<>> ELSE <<".">> \o frac_digits(mag % Pow10(v.e), v.e))

(***************************************************************************)
(* Coordinate parser, src/src/coord.rs:14-43, and list codec,              *)
(* src/src/util.rs:11-28                                                   *)
(***************************************************************************)

\* Mutant: any token with at least two parts is accepted (the rest ignored).
coord_lenient(s) ==
    LET items == split(s, ",")
    IN  IF Len(items) >= 2
        THEN LET lat == parse_f64(items[1])
                 lng == parse_f64(items[2])
             IN  IF lat.kind # "Ok" THEN lat
                 ELSE IF lng.kind # "Ok" THEN lng
                 ELSE Ok([lat |-> lat.val, lng |-> lng.val])
        ELSE Err("need 2 float for coordinate")

\* coord.rs:15-24, Coord::coord
coord(s) ==
    LET items == split(s, ",")
    IN  IF Len(items) = 2
        THEN LET lat == parse_f64(items[1])
                 lng == parse_f64(items[2])
             IN  IF lat.kind # "Ok" THEN lat
                 ELSE IF lng.kind # "Ok" THEN lng
                 ELSE Ok([lat |-> lat.val, lng |-> lng.val])
        ELSE Err("need 2 float for coordinate")

\* The loop of coord.rs:29-31: push each parsed item, return the first error.
RECURSIVE coords_loop(_, _)
coords_loop(items, r) ==
    IF items = <<>> THEN Ok(r)
    ELSE LET c == coord(Head(items))
         IN  IF c.kind # "Ok" THEN c ELSE coords_loop(Tail(items), Append(r, c.val))

\* Mutant: an invalid item is skipped instead of failing the call.
RECURSIVE coords_skip_invalid_loop(_, _)
coords_skip_invalid_loop(items, r) ==
    IF items = <<>> THEN Ok(r)
    ELSE LET c == coord(Head(items))
         IN  coords_skip_invalid_loop(Tail(items),
                                      IF c.kind # "Ok" THEN r ELSE Append(r, c.val))
coords_skip_invalid(s) == coords_skip_invalid_loop(split(s, "|"), <<>>)

\* coord.rs:26-33, Coord::coords
coords(s) == coords_loop(split(s, "|"), <<>>)

\* coord.rs:35-42, Coord::coords_to_str
coords_to_str(list) ==
    join([i \in 1..Len(list) |->
            format_f64(list[i].lat) \o <<",">> \o format_f64(list[i].lng)], "|")

\* The loop of util.rs:14-21 for T = f64.
RECURSIVE parse_list_loop(_, _)
parse_list_loop(items, r) ==
    IF items = <<>> THEN Ok(r)
    ELSE LET v == parse_f64(Head(items))
         IN  IF v.kind # "Ok" THEN Err("invalid input")
             ELSE parse_list_loop(Tail(items), Append(r, v.val))

\* util.rs:11-23, parse_list::<f64>
parse_list(s) == parse_list_loop(split(s, "|"), <<>>)

\* util.rs:25-28, encode_list::<f64>
encode_list(list) == join([i \in 1..Len(list) |-> format_f64(list[i])], "|")

(***************************************************************************)
(* Input domains of the coordinate specification                           *)
(***************************************************************************)
MaxTokens == 2      \* tokens ('|'-separated) in a parsed text
MaxList == 2        \* elements of an encoded list
MaxFrac == 1        \* fraction digits of the encoded numbers

RECURSIVE SeqsUpTo(_, _)
SeqsUpTo(S, n) ==
    IF n = 0 THEN {<<>>}
    ELSE LET shorter == SeqsUpTo(S, n - 1)
         IN  shorter \cup {Append(q, x) : q \in {r \in shorter : Len(r) = n - 1}, x \in S}

\* The pieces a token is made of: "", "1", "-1.5", ".5", "." and "x".
TokenParts == {<<>>, <<"1">>, <<"-", "1", ".", "5">>, <<".", "5">>, <<".">>, <<"x">>}

\* The tokens: one or two parts joined by ',', and two with three parts.
Tokens ==
    {join(ps, ",") : ps \in SeqsUpTo(TokenParts, 2) \ {<<>>}}
        \cup {join(<<<<"1">>, <<"1">>, <<"1">>>>, ","), join(<<<<"1">>, <<>>, <<"1">>>>, ",")}

InputTexts == {join(ts, "|") : ts \in SeqsUpTo(Tokens, MaxTokens) \ {<<>>}}

Mantissas == {0 - 120, 0 - 7, 0, 3, 10, 105}
ListValues == {normalize(m, e) : m \in Mantissas, e \in 0..MaxFrac}

\* 1.3, 103.85, 40 and -70
CoordValues == {normalize(13, 1), normalize(10385, 2), normalize(40, 0), normalize(0 - 70, 0)}
CoordSet == {[lat |-> a, lng |-> b] : a \in CoordValues, b \in CoordValues}

InitCoord ==
    /\ IdleLater
    /\ pc = "start"
    /\ op = ""
    /\ mode = None /\ is_flexible_request = FALSE
    /\ IdleMapMode /\ IdlePoly /\ IdleFindArea
    /\ encoded = None
    /\ parsed = NoResult
    /\ \/ input \in InputTexts /\ xs = <<>> /\ cs = <<>>
       \/ input = <<>> /\ xs \in SeqsUpTo(ListValues, MaxList) /\ cs = <<>>
       \/ input = <<>> /\ xs = <<>> /\ cs \in SeqsUpTo(CoordSet, MaxList)

\* Coord::coords(input)
CallCoords ==
    /\ pc \in {"start", "coords_to_str"}
    /\ pc' = "done"
    /\ op' = "coords"
    /\ parsed' = coords(input)
    /\ UNCHANGED <<input, xs, cs, encoded, rqVars, mmVars, pgVars, faVars, laterVars>>

\* parse_list::<f64>(input)
CallParseList ==
    /\ pc \in {"start", "encode_list"}
    /\ pc' = "done"
    /\ op' = "parse_list"
    /\ parsed' = parse_list(input)
    /\ UNCHANGED <<input, xs, cs, encoded, rqVars, mmVars, pgVars, faVars, laterVars>>

\* input = Coord::coords_to_str(cs): the text is then given to the parser
CallCoordsToStr ==
    /\ pc = "start"
    /\ pc' = "coords_to_str"
    /\ op' = "coords_to_str"
    /\ encoded' = Some(coords_to_str(cs))
    /\ input' = coords_to_str(cs)
    /\ UNCHANGED <<xs, cs, parsed, rqVars, mmVars, pgVars, faVars, laterVars>>

\* input = encode_list(xs): the text is then given to the parser
CallEncodeList ==
    /\ pc = "start"
    /\ pc' = "encode_list"
    /\ op' = "encode_list"
    /\ encoded' = Some(encode_list(xs))
    /\ input' = encode_list(xs)
    /\ UNCHANGED <<xs, cs, parsed, rqVars, mmVars, pgVars, faVars, laterVars>>

NextCoord == CallCoords \/ CallParseList \/ CallCoordsToStr \/ CallEncodeList

SpecCoord == InitCoord /\ [][NextCoord]_vars

(***************************************************************************)
(* Claims about the coordinate parser and the list codec (SpecCoord)       *)
(***************************************************************************)

\* The pieces of a text, described by the positions of its separators.
SepPositions(s, sep) == {i \in 1..Len(s) : s[i] = sep}
PieceCount(s, sep) == Cardinality(SepPositions(s, sep)) + 1
Piece(s, sep, k) ==
    LET B == SepPositions(s, sep) \cup {0, Len(s) + 1}
        lo == CHOOSE i \in B : Cardinality({j \in B : j < i}) = k - 1
        hi == CHOOSE i \in B : Cardinality({j \in B : j < i}) = k
    IN  SubSeq(s, lo + 1, hi - 1)

\* A token is valid when it has exactly two ','-separated parts that both
\* parse as numbers.
ValidToken(t) ==
    /\ PieceCount(t, ",") = 2
    /\ parse_f64(Piece(t, ",", 1)).kind = "Ok"
    /\ parse_f64(Piece(t, ",", 2)).kind = "Ok"

PointOfToken(t) ==
    [lat |-> parse_f64(Piece(t, ",", 1)).val, lng |-> parse_f64(Piece(t, ",", 2)).val]

\* C8: Coord::coords returns one point per '|'-separated token, in input
\* order, when every token is valid, and an error (carrying no points) as
\* soon as one token is invalid, an empty token included.
C8_CoordsAllOrNothing ==
    (pc = "done" /\ op = "coords") =>
        LET n == PieceCount(input, "|")
        IN  IF \A k \in 1..n : ValidToken(Piece(input, "|", k))
            THEN /\ parsed.kind = "Ok"
                 /\ Len(parsed.val) = n
                 /\ \A k \in 1..n : parsed.val[k] = PointOfToken(Piece(input, "|", k))
            ELSE parsed.kind = "Err"

\* C8 witness: two valid tokens with different points were parsed in order.
C8_Witness ==
    /\ pc = "done" /\ op = "coords" /\ encoded = None
    /\ parsed.kind = "Ok" /\ Len(parsed.val) = 2
    /\ parsed.val[1].lat # parsed.val[2].lat
    /\ parsed.val[1].lat # parsed.val[1].lng

IsListRoundTrip == pc = "done" /\ op = "parse_list" /\ encoded = Some(input)
IsCoordsRoundTrip == pc = "done" /\ op = "coords" /\ encoded = Some(input)

\* C9 as stated: parse_list(encode_list(xs)) = xs and
\* Coord::coords(Coord::coords_to_str(cs)) = cs for every list length.
C9_RoundTripEveryLength ==
    /\ IsListRoundTrip => parsed = Ok(xs)
    /\ IsCoordsRoundTrip => parsed = Ok(cs)

\* C9 amended: the round trip gives the list back for every non-empty list;
\* the empty list is encoded as the empty text, which both parsers reject.
C9_RoundTripNonEmpty ==
    /\ IsListRoundTrip =>
          IF xs # <<>> THEN parsed = Ok(xs) ELSE input = <<>> /\ parsed.kind = "Err"
    /\ IsCoordsRoundTrip =>
          IF cs # <<>> THEN parsed = Ok(cs) ELSE input = <<>> /\ parsed.kind = "Err"

\* C9 witness: a list of two different numbers, one negative with a
\* fraction, came back from encode_list and parse_list.
C9_Witness ==
    /\ IsListRoundTrip
    /\ Len(xs) = 2 /\ xs[1] # xs[2]
    /\ xs[1].m < 0 /\ xs[1].e > 0
    /\ parsed = Ok(xs)

(***************************************************************************)
(* Polygons, src/src/coord.rs:54-98.  A geo::Polygon<f64> with no holes is *)
(* modelled by its exterior ring, a sequence of vertices [x, y] with       *)
(* integer coordinates; a geo::Point is [x |-> lng, y |-> lat].            *)
(***************************************************************************)
Panic(msg) == [kind |-> "Panic", val |-> msg]

\* Polygon::new(LineString::from(coords), vec![]) (def.rs:1798, poly.rs:39):
\* the ring is closed by repeating its first vertex when it is not closed.
polygon_new(ring) ==
    IF ring # <<>> /\ ring[1] # ring[Len(ring)] THEN Append(ring, ring[1]) ELSE ring

\* Point::new(self.lng(), self.lat()), coord.rs:62 and coord.rs:81
geo_point(c) == [x |-> c.lng, y |-> c.lat]

\* Mutant: latitude taken as x and longitude as y.
geo_point_swapped(c) == [x |-> c.lat, y |-> c.lng]

Min2(a, b) == IF a <= b THEN a ELSE b
Max2(a, b) == IF a >= b THEN a ELSE b

\* The extent of the vertices i.. of a ring, starting from the extent r.
RECURSIVE extent_from(_, _, _)
extent_from(poly, i, r) ==
    IF i > Len(poly) THEN r
    ELSE extent_from(poly, i + 1,
            [min |-> [x |-> Min2(r.min.x, poly[i].x), y |-> Min2(r.min.y, poly[i].y)],
             max |-> [x |-> Max2(r.max.x, poly[i].x), y |-> Max2(r.max.y, poly[i].y)]])

\* BoundingRect::bounding_rect of a polygon (coord.rs:83): None for a ring
\* without vertices, else the extent of the ring.
bounding_rect(poly) ==
    IF poly = <<>> THEN None
    ELSE Some(extent_from(poly, 2, [min |-> poly[1], max |-> poly[1]]))

\* p lies on the closed segment from a to b
on_segment(p, a, b) ==
    /\ (b.x - a.x) * (p.y - a.y) = (b.y - a.y) * (p.x - a.x)
    /\ p.x >= Min2(a.x, b.x) /\ p.x <= Max2(a.x, b.x)
    /\ p.y >= Min2(a.y, b.y) /\ p.y <= Max2(a.y, b.y)

\* the edge from a to b crosses the ray from p towards larger x
crosses_ray(p, a, b) ==
    /\ (a.y > p.y) # (b.y > p.y)
    /\ IF b.y > a.y
       THEN (p.x - a.x) * (b.y - a.y) < (p.y - a.y) * (b.x - a.x)
       ELSE (p.x - a.x) * (b.y - a.y) > (p.y - a.y) * (b.x - a.x)

\* Contains<Point> for Polygon (coord.rs:71, coord.rs:91): the point is in
\* the interior of the ring; a point of the boundary is not contained, and
\* a ring without vertices contains nothing.
contains(poly, p) ==
    LET E == 1..(Len(poly) - 1)
    IN  /\ poly # <<>>
        /\ p # poly[1]
        /\ \A i \in E : ~on_segment(p, poly[i], poly[i + 1])
        /\ Cardinality({i \in E : crosses_ray(p, poly[i], poly[i + 1])}) % 2 = 1

\* The loop of coord.rs:82-94 from polygon i on.
RECURSIVE is_in_polygons_from(_, _, _)
is_in_polygons_from(p, list, i) ==
    IF i > Len(list) THEN Ok(FALSE)
    ELSE LET brect == bounding_rect(list[i])
         IN  IF brect = None
             THEN Panic("called Option::unwrap() on a None value")
             ELSE IF \/ p.x < brect[1].min.x \/ p.x > brect[1].max.x
                     \/ p.y < brect[1].min.y \/ p.y > brect[1].max.y
                  THEN is_in_polygons_from(p, list, i + 1)
                  ELSE IF contains(list[i], p)
                       THEN Ok(TRUE)
                       ELSE is_in_polygons_from(p, list, i + 1)

\* coord.rs:80-97, Locatable::is_in_polygons
is_in_polygons(c, list) == is_in_polygons_from(geo_point(c), list, 1)

\* The loop of coord.rs:63-75 from area i on.
RECURSIVE locate_from(_, _, _, _)
locate_from(c, area_polygons, selected_areas, i) ==
    IF i > Len(selected_areas)
    THEN Err([fmt |-> "area not found for {},{}", args |-> <<c.lat, c.lng>>])
    ELSE LET a == selected_areas[i]
         IN  IF a.name \notin DOMAIN area_polygons
             THEN locate_from(c, area_polygons, selected_areas, i + 1)
             ELSE IF \E k \in 1..Len(area_polygons[a.name]) :
                        contains(area_polygons[a.name][k], geo_point(c))
                  THEN Ok(a)
                  ELSE locate_from(c, area_polygons, selected_areas, i + 1)

\* coord.rs:57-78, Locatable::locate
locate(c, area_polygons, selected_areas) == locate_from(c, area_polygons, selected_areas, 1)

(***************************************************************************)
(* Input domains of the polygon specification                              *)
(***************************************************************************)
MaxRing == 3       \* vertices of a ring as configured (before it is closed)
MaxPolys == 2      \* polygons of an area

Corners == {[x |-> cx, y |-> cy] : cx \in {0, 4}, cy \in {0, 4}}
Rings == {polygon_new(r) : r \in SeqsUpTo(Corners, MaxRing)}
PolygonLists == SeqsUpTo(Rings, MaxPolys)
ProbeCoords == {[lat |-> la, lng |-> ln] : la \in {0, 1, 3, 5}, ln \in {0, 1, 3, 5}}

\* The one area of the polygon specification: the "sg" area of the example.
AreaSg == [name |-> "sg", default_service |-> "4w",
           mappings |-> [k \in {"car"} |-> "4w"], flexible_setting |-> None]

InitPoly ==
    /\ IdleLater
    /\ pc = "start"
    /\ op = ""
    /\ mode = None /\ is_flexible_request = FALSE
    /\ IdleMapMode /\ IdleCoord /\ IdleFindArea
    /\ point \in ProbeCoords
    /\ polys \in PolygonLists
    /\ inside = NoResult
    /\ located = NoResult

\* point.is_in_polygons(&polys)
CallIsInPolygons ==
    /\ pc = "start"
    /\ pc' = "checked"
    /\ op' = "is_in_polygons"
    /\ inside' = is_in_polygons(point, polys)
    /\ UNCHANGED <<point, polys, located, rqVars, mmVars, cdVars, faVars, laterVars>>

\* point.locate(&{"sg": polys}, &[sg])
CallLocate ==
    /\ pc = "checked"
    /\ pc' = "done"
    /\ op' = "locate"
    /\ located' = locate(point, [n \in {AreaSg.name} |-> polys], <<AreaSg>>)
    /\ UNCHANGED <<point, polys, inside, rqVars, mmVars, cdVars, faVars, laterVars>>

NextPoly == CallIsInPolygons \/ CallLocate

SpecPoly == InitPoly /\ [][NextPoly]_vars

(***************************************************************************)
(* Claims about polygon containment (SpecPoly)                             *)
(***************************************************************************)

\* The unfiltered containment test of locate (coord.rs:70-74).
SomePolygonContains(c, list) == \E k \in 1..Len(list) : contains(list[k], geo_point(c))

\* C10: is_in_polygons(point, polygons) returns true if and only if at least
\* one polygon of the list contains the point, so its result equals that of
\* the unfiltered containment test used by locate.
C10_IsInPolygonsIsContainment ==
    /\ inside # NoResult => inside = Ok(SomePolygonContains(point, polys))
    /\ located # NoResult => (inside = Ok(TRUE) <=> located.kind = "Ok")

(***************************************************************************)
(* Area resolution, src/src/lib.rs:322-440                                 *)
(***************************************************************************)

\* An error message built by bail!(fmt, args...).
Msg(fmt, args) == [fmt |-> fmt, args |-> args]

\* The per-point loop of lib.rs:349-364 from point idx on (idx counts from 1,
\* the recorded indexes count from 0 as enumerate() does).  coord_index are
\* the indexes of the points that are in the area, missing_coords the points
\* that are not; without tolerate_outlier the loop stops at the first miss.
RECURSIVE scan_coords(_, _, _, _, _, _)
scan_coords(cl, vs, tolerate, idx, coord_index, missing_coords) ==
    IF idx > Len(cl)
    THEN [coord_index |-> coord_index, missing_coords |-> missing_coords, panicked |-> FALSE]
    ELSE LET hit == is_in_polygons(cl[idx], vs)
         IN  IF hit.kind = "Panic"
             THEN [coord_index |-> coord_index, missing_coords |-> missing_coords,
                   panicked |-> TRUE]
             ELSE IF hit.val
                  THEN scan_coords(cl, vs, tolerate, idx + 1,
                                   Append(coord_index, idx - 1), missing_coords)
                  ELSE IF ~tolerate
                       THEN [coord_index |-> coord_index,
                             missing_coords |-> Append(missing_coords, cl[idx]),
                             panicked |-> FALSE]
                       ELSE scan_coords(cl, vs, tolerate, idx + 1,
                                        coord_index, Append(missing_coords, cl[idx]))

\* The locals of find_area, lib.rs:331-338.
InitialBest ==
    [best_area |-> None, best_coord_index |-> <<>>, mapped_mode |-> None,
     best_missing_coords |-> None, best_number_of_coords |-> 0]

\* Mutant: an area without any contained point is not remembered.
track_missing_partial_only(st, sc) ==
    IF Len(sc.coord_index) > st.best_number_of_coords
    THEN [st EXCEPT !.best_missing_coords = Some(sc.missing_coords[1]),
                    !.best_number_of_coords = Len(sc.coord_index)]
    ELSE st

\* lib.rs:378-381: remember the first missing point of the likeliest area.
track_missing(st, sc) ==
    IF st.best_number_of_coords = 0 \/ Len(sc.coord_index) > st.best_number_of_coords
    THEN [st EXCEPT !.best_missing_coords = Some(sc.missing_coords[1]),
                    !.best_number_of_coords = Len(sc.coord_index)]
    ELSE st

\* Mutant: a later area replaces the tracked candidate on a tie as well.
track_best_on_tie(st, a, sc, m, flexible) ==
    IF Len(sc.coord_index) >= Len(st.best_coord_index)
    THEN LET mapped_mode_result == map_mode(m, a, flexible)
         IN  IF mapped_mode_result.kind = "Ok"
             THEN [st EXCEPT !.best_area = Some(a),
                             !.best_coord_index = sc.coord_index,
                             !.mapped_mode = Some(mapped_mode_result.val)]
             ELSE st
    ELSE st

\* Mutant: the tracked index list holds the positions of the missing points.
track_best_outliers(st, a, sc, m, flexible) ==
    IF Len(sc.coord_index) > Len(st.best_coord_index)
    THEN LET mapped_mode_result == map_mode(m, a, flexible)
         IN  IF mapped_mode_result.kind = "Ok"
             THEN [st EXCEPT !.best_area = Some(a),
                             !.best_coord_index =
                                 [k \in 1..Len(sc.missing_coords) |-> Len(sc.coord_index) + k - 1],
                             !.mapped_mode = Some(mapped_mode_result.val)]
             ELSE st
    ELSE st

\* lib.rs:396-403: a partial match with more points than the tracked one
\* becomes the tracked candidate when its mode mapping succeeds.
track_best(st, a, sc, m, flexible) ==
    IF Len(sc.coord_index) > Len(st.best_coord_index)
    THEN LET mapped_mode_result == map_mode(m, a, flexible)
         IN  IF mapped_mode_result.kind = "Ok"
             THEN [st EXCEPT !.best_area = Some(a),
                             !.best_coord_index = sc.coord_index,
                             !.mapped_mode = Some(mapped_mode_result.val)]
             ELSE st
    ELSE st

\* lib.rs:406-419: the result when no area was a full match.
find_area_end(st) ==
    IF st.best_area # None /\ st.mapped_mode # None
    THEN Ok([area |-> st.best_area[1], mode |-> st.mapped_mode[1],
             coord_index |-> Some(st.best_coord_index)])
    ELSE IF st.best_missing_coords # None
         THEN Err(Msg("({},{})", <<st.best_missing_coords[1].lat, st.best_missing_coords[1].lng>>))
         ELSE Err(Msg("", <<>>))

\* Mutant: without tolerate_outlier a partial match is tracked all the same.
partial_is_candidate_always(tolerate) == TRUE

\* lib.rs:392-394: a partial match is a candidate only with tolerate_outlier.
partial_is_candidate(tolerate) == tolerate

\* Mutant: a full match whose mode mapping fails ends the search.
full_match_stop_on_bad_mode(a, mapped_mode_result, rest) ==
    IF mapped_mode_result.kind = "Ok"
    THEN Ok([area |-> a, mode |-> mapped_mode_result.val, coord_index |-> None])
    ELSE Err(Msg(mapped_mode_result.val, <<>>))

\* lib.rs:371-375: a full match returns when its mode mapping succeeds, and
\* is passed over (continue) when it fails; rest is the result of the
\* remaining iterations.
full_match(a, mapped_mode_result, rest) ==
    IF mapped_mode_result.kind = "Ok"
    THEN Ok([area |-> a, mode |-> mapped_mode_result.val, coord_index |-> None])
    ELSE rest

\* The loop of lib.rs:340-404 from area i on, then lib.rs:406-419.
RECURSIVE find_area_from(_, _, _, _, _, _, _, _)
find_area_from(m, cl, store, al, tolerate, flexible, i, st) ==
    IF i > Len(al) THEN find_area_end(st)
    ELSE LET a == al[i]
         IN  IF a.name \notin DOMAIN store
             THEN find_area_from(m, cl, store, al, tolerate, flexible, i + 1, st)
             ELSE LET sc == scan_coords(cl, store[a.name], tolerate, 1, <<>>, <<>>)
                  IN  IF sc.panicked
                      THEN Panic("called Option::unwrap() on a None value")
                      ELSE IF Len(sc.coord_index) = Len(cl)
                      THEN full_match(a, map_mode(m, a, flexible),
                                      find_area_from(m, cl, store, al, tolerate, flexible,
                                                     i + 1, st))
                      ELSE LET st1 == track_missing(st, sc)
                           IN  IF Len(sc.coord_index) = 0 \/ ~partial_is_candidate(tolerate)
                               THEN find_area_from(m, cl, store, al, tolerate, flexible,
                                                   i + 1, st1)
                               ELSE find_area_from(m, cl, store, al, tolerate, flexible,
                                                   i + 1, track_best(st1, a, sc, m, flexible))

\* Mutant: an area without an entry in the store is scanned with an empty
\* polygon list instead of being skipped.
find_area_unskipped(m, cl, store, al, tolerate, flexible) ==
    LET names == DOMAIN store \cup {al[i].name : i \in 1..Len(al)}
        filled == [n \in names |-> IF n \in DOMAIN store THEN store[n] ELSE <<>>]
    IN  find_area_from(m, cl, filled, al, tolerate, flexible, 1, InitialBest)

\* lib.rs:322-420, find_area (request_id is only logged)
find_area(m, cl, store, al, tolerate, flexible) ==
    find_area_from(m, cl, store, al, tolerate, flexible, 1, InitialBest)

\* lib.rs:422-440, find_service
find_service(m, cl, store, al, tolerate, flexible) ==
    LET r == find_area(m, cl, store, al, tolerate, flexible)
    IN  IF r.kind # "Ok" THEN r
        ELSE Ok([service |-> [area |-> r.val.area, mode |-> r.val.mode],
                 coord_index |-> r.val.coord_index])

(***************************************************************************)
(* Input domains of the resolver specification                             *)
(***************************************************************************)
MaxAreas == 2      \* areas in the registry
MaxCoords == 3     \* input points of a request

\* Two disjoint boxes (x is longitude, y is latitude) and a polygon whose
\* ring has no vertices.
BoxRing(x0, x1, y0, y1) ==
    polygon_new(<<[x |-> x0, y |-> y1], [x |-> x1, y |-> y1],
                  [x |-> x1, y |-> y0], [x |-> x0, y |-> y0]>>)
West == BoxRing(0, 4, 10, 14)
East == BoxRing(6, 10, 10, 14)
EmptyRing == polygon_new(<<>>)

\* What the polygon store holds for an area name: nothing (None), or a list.
StoreEntries == {None, Some(<<West>>), Some(<<East>>), Some(<<West, EmptyRing>>)}

\* A point inside West, one inside East and one outside both.
InWest == [lat |-> 12, lng |-> 2]
InEast == [lat |-> 12, lng |-> 8]
Outside == [lat |-> 40, lng |-> 0 - 70]
RequestCoords == {InWest, InEast, Outside}

\* The mode tables of the areas: one with default "4w" and car -> 4w and no
\* flexible tier, one without default, with truck -> 6w and a flexible tier.
AreaTables ==
    {[default_service |-> "4w", mappings |-> [k \in {"car"} |-> "4w"],
      flexible_setting |-> None],
     [default_service |-> "", mappings |-> [k \in {"truck"} |-> "6w"],
      flexible_setting |-> Some(Tier("2w", [k \in {"car"} |-> "2wf"]))]}

AreaNames == <<"sg", "my", "id", "th">>
ResolverModes == {None, Some("truck")}

AreaAt(i, t) ==
    [name |-> AreaNames[i], default_service |-> t.default_service,
     mappings |-> t.mappings, flexible_setting |-> t.flexible_setting]

\* The store that holds entry[i] for the i-th area name.
StoreOf(entries) ==
    [n \in {AreaNames[i] : i \in {j \in 1..Len(entries) : entries[j] # None}} |->
        entries[CHOOSE i \in 1..Len(entries) : AreaNames[i] = n][1]]

InitFindArea ==
    /\ IdleLater
    /\ pc = "start"
    /\ op = ""
    /\ IdleMapMode /\ IdleCoord /\ IdlePoly
    /\ mode \in ResolverModes
    /\ is_flexible_request = FALSE
    /\ tolerate_outlier \in BOOLEAN
    /\ coords_in \in SeqsUpTo(RequestCoords, MaxCoords)
    /\ \E n \in 1..MaxAreas :
         \E ts \in [1..n -> AreaTables], es \in [1..n -> StoreEntries] :
            /\ areas = [i \in 1..n |-> AreaAt(i, ts[i])]
            /\ polygons = StoreOf(es)
    /\ found = NoResult

CallFindArea ==
    /\ pc = "start"
    /\ pc' = "done"
    /\ op' = "find_area"
    /\ found' = find_area(mode, coords_in, polygons, areas, tolerate_outlier,
                          is_flexible_request)
    /\ UNCHANGED <<areas, polygons, coords_in, tolerate_outlier, rqVars, mmVars, cdVars, pgVars, laterVars>>

CallFindService ==
    /\ pc = "start"
    /\ pc' = "done"
    /\ op' = "find_service"
    /\ found' = find_service(mode, coords_in, polygons, areas, tolerate_outlier,
                             is_flexible_request)
    /\ UNCHANGED <<areas, polygons, coords_in, tolerate_outlier, rqVars, mmVars, cdVars, pgVars, laterVars>>

NextFindArea == CallFindArea \/ CallFindService

SpecFindArea == InitFindArea /\ [][NextFindArea]_vars

\* The same calls for requests of at most MaxPoints points.
MaxPoints == 2

InitResolve ==
    /\ IdleLater
    /\ pc = "start"
    /\ op = ""
    /\ IdleMapMode /\ IdleCoord /\ IdlePoly
    /\ mode \in ResolverModes
    /\ is_flexible_request = FALSE
    /\ tolerate_outlier \in BOOLEAN
    /\ coords_in \in SeqsUpTo(RequestCoords, MaxPoints)
    /\ \E n \in 1..MaxAreas :
         \E ts \in [1..n -> AreaTables], es \in [1..n -> StoreEntries] :
            /\ areas = [i \in 1..n |-> AreaAt(i, ts[i])]
            /\ polygons = StoreOf(es)
    /\ found = NoResult

SpecResolve == InitResolve /\ [][NextFindArea]_vars

(***************************************************************************)
(* Claims about find_area and find_service (SpecFindArea)                  *)
(***************************************************************************)
Resolved == pc = "done" /\ op \in {"find_area", "find_service"}
FoundArea == IF op = "find_area" THEN found.val.area ELSE found.val.service.area
FoundMode == IF op = "find_area" THEN found.val.mode ELSE found.val.service.mode
FoundIndex == found.val.coord_index

\* Geometric containment of an input point in an area of the registry.
HasPolygons(a) == a.name \in DOMAIN polygons
AreaContains(a, c) == HasPolygons(a) /\ SomePolygonContains(c, polygons[a.name])
ContainsAll(a) == \A k \in 1..Len(coords_in) : AreaContains(a, coords_in[k])
ContainedPositions(a) == {k - 1 : k \in {j \in 1..Len(coords_in) : AreaContains(a, coords_in[j])}}
MissingPositions(a) == {k - 1 : k \in {j \in 1..Len(coords_in) : ~AreaContains(a, coords_in[j])}}
Accepts(a) == map_mode(mode, a, is_flexible_request).kind = "Ok"

\* l lists the members of S in increasing order
IsIncreasingListOf(l, S) ==
    /\ {l[i] : i \in 1..Len(l)} = S
    /\ \A i, j \in 1..Len(l) : i < j => l[i] < l[j]

\* C1: without tolerate_outlier and with a non-empty list of points, the call
\* returns an error whenever some input point is contained in no area's
\* polygons, and it never returns an area that contains only some of the
\* input points.
C1_NoPartialAreaWithoutTolerance ==
    (Resolved /\ ~tolerate_outlier /\ coords_in # <<>>) =>
        /\ (\E k \in 1..Len(coords_in) :
               \A i \in 1..Len(areas) : ~AreaContains(areas[i], coords_in[k]))
              => found.kind = "Err"
        /\ found.kind = "Ok" => ContainsAll(FoundArea)

\* C2: for both values of tolerate_outlier, when some area has polygons,
\* contains every input point and accepts the requested mode, the result is
\* the first such area in registry order with its mapped mode and no index
\* list.
C2_FirstFullMatchWins ==
    LET full == {i \in 1..Len(areas) :
                    HasPolygons(areas[i]) /\ ContainsAll(areas[i]) /\ Accepts(areas[i])}
    IN  (Resolved /\ full # {}) =>
            LET first == CHOOSE i \in full : \A j \in full : i <= j
            IN  /\ found.kind = "Ok"
                /\ FoundArea = areas[first]
                /\ FoundMode = map_mode(mode, areas[first], is_flexible_request).val
                /\ FoundIndex = None

\* C3 as stated: the index list returned with the best partial candidate is
\* the list of the positions of the input points that are NOT contained in
\* the returned area.
C3_IndexListIsOutliers ==
    (Resolved /\ found.kind = "Ok" /\ FoundIndex # None) =>
        IsIncreasingListOf(FoundIndex[1], MissingPositions(FoundArea))

\* C3 amended: an index list is returned only with tolerate_outlier and for
\* an area that contains some but not all input points, and it is the list,
\* in increasing order, of the positions of the input points that ARE
\* contained in the returned area.
C3_IndexListIsContained ==
    (Resolved /\ found.kind = "Ok" /\ FoundIndex # None) =>
        /\ tolerate_outlier
        /\ ~ContainsAll(FoundArea)
        /\ FoundIndex[1] # <<>>
        /\ IsIncreasingListOf(FoundIndex[1], ContainedPositions(FoundArea))

\* C3 witness: for the points [inside, outside] the area of the first point
\* is returned with the index list [0].
C3_Witness ==
    /\ Resolved /\ tolerate_outlier
    /\ coords_in = <<InWest, Outside>>
    /\ found.kind = "Ok"
    /\ FoundIndex = Some(<<0>>)
    /\ AreaContains(FoundArea, InWest) /\ ~AreaContains(FoundArea, Outside)

\* C4: when the requested mode is non-empty, is no key of the mappings of the
\* only area and differs from its default_service, and the input points lie
\* inside that area, resolution fails with the invalid-mode error ("invalid
\* mode input") and not with another error.
C4_InvalidModeIsReported ==
    (/\ Resolved
     /\ Len(areas) = 1 /\ coords_in # <<>> /\ ContainsAll(areas[1])
     /\ mode # None /\ mode[1] # ""
     /\ mode[1] \notin DOMAIN areas[1].mappings
     /\ mode[1] # areas[1].default_service)
        => found.kind = "Err" /\ found.val.fmt = "invalid mode input"

\* The areas of the registry that can become the tracked partial candidate:
\* they have polygons, contain at least one input point and accept the mode.
IsCandidate(i) ==
    /\ HasPolygons(areas[i])
    /\ ContainedPositions(areas[i]) # {}
    /\ Accepts(areas[i])
ContainedCount(i) == Cardinality(ContainedPositions(areas[i]))

\* C20: with tolerate_outlier and no full match, the returned area is a
\* candidate (it has polygons, contains at least one input point and accepts
\* the requested mode) with the largest number of contained input points,
\* and the earliest in registry order among the candidates with that number.
C20_BestCandidateByCount ==
    (Resolved /\ found.kind = "Ok" /\ FoundIndex # None) =>
        \E i \in 1..Len(areas) :
            /\ areas[i] = FoundArea
            /\ IsCandidate(i)
            /\ \A j \in 1..Len(areas) :
                 IsCandidate(j) =>
                    /\ ContainedCount(j) <= ContainedCount(i)
                    /\ ContainedCount(j) = ContainedCount(i) => i <= j

\* C20 witness: two candidates contain one point each, and the first one in
\* registry order is returned.
C20_Witness ==
    /\ Resolved /\ tolerate_outlier /\ found.kind = "Ok" /\ FoundIndex # None
    /\ Len(areas) = 2
    /\ IsCandidate(1) /\ IsCandidate(2)
    /\ ContainedCount(1) = ContainedCount(2)
    /\ FoundArea = areas[1]

\* The areas that are scanned and miss a point, and among them the areas
\* that contain at least one input point.
MissingAreas == {i \in 1..Len(areas) : HasPolygons(areas[i]) /\ ~ContainsAll(areas[i])}
PartialAreas == {i \in MissingAreas : ContainedPositions(areas[i]) # {}}

\* The error that names an input point, lib.rs:416.
NamesPoint(c) == Err(Msg("({},{})", <<c.lat, c.lng>>))
\* The generic error, lib.rs:419.
GenericError == Err(Msg("", <<>>))

\* The first input point that is not contained in area i.
FirstMissing(i) ==
    LET S == MissingPositions(areas[i])
    IN  coords_in[(CHOOSE k \in S : \A l \in S : k <= l) + 1]

\* The partial area that contains the largest number of input points, the
\* earliest in registry order on a tie.
LikeliestArea ==
    CHOOSE i \in PartialAreas :
        \A j \in PartialAreas :
            \/ ContainedCount(j) < ContainedCount(i)
            \/ ContainedCount(j) = ContainedCount(i) /\ i <= j

\* C21: when resolution fails and some area with polygons contains some but
\* not all input points, the error names the (lat,lng) of the first input
\* point that is missing from the area containing the largest number of
\* input points (earliest area on ties), for both values of tolerate_outlier.
C21_ErrorNamesFirstMissingOfLikeliest ==
    (Resolved /\ found.kind = "Err" /\ PartialAreas # {}) =>
        found = NamesPoint(FirstMissing(LikeliestArea))

StoredAreas == SelectSeq(areas, HasPolygons)

\* C23: an area whose name has no entry in the polygon store is never
\* returned, and the result (the returned area, mode and index list, or the
\* error and its message) is the result computed from the other areas alone,
\* wherever such an area stands in the registry.
C23_AreasWithoutPolygonsAreSkipped ==
    Resolved =>
        /\ found.kind = "Ok" => HasPolygons(FoundArea)
        /\ found = (IF op = "find_area"
                    THEN find_area(mode, coords_in, polygons, StoredAreas,
                                   tolerate_outlier, is_flexible_request)
                    ELSE find_service(mode, coords_in, polygons, StoredAreas,
                                      tolerate_outlier, is_flexible_request))

\* C23 witness: the first area of the registry has no polygons and accepts
\* the mode, and the second area is returned.
C23_Witness ==
    /\ Resolved /\ Len(areas) = 2
    /\ ~HasPolygons(areas[1]) /\ Accepts(areas[1])
    /\ found.kind = "Ok" /\ FoundArea = areas[2]

\* C27: with an empty list of input points the call returns the first area
\* in registry order that has polygons and accepts the requested mode, with
\* its mapped mode and no index list, and it fails with the generic error
\* when there is no such area; it never names a coordinate.
C27_EmptyPointsFirstAcceptingArea ==
    (Resolved /\ coords_in = <<>>) =>
        LET ok == {i \in 1..Len(areas) : HasPolygons(areas[i]) /\ Accepts(areas[i])}
        IN  IF ok = {} THEN found = GenericError
            ELSE LET first == CHOOSE i \in ok : \A j \in ok : i <= j
                 IN  /\ found.kind = "Ok"
                     /\ FoundArea = areas[first]
                     /\ FoundMode = map_mode(mode, areas[first], is_flexible_request).val
                     /\ FoundIndex = None

\* C27 witness: no input points, the first area has polygons and rejects
\* the mode, and the second area is returned without index list.
C27_Witness ==
    /\ Resolved /\ coords_in = <<>> /\ Len(areas) = 2
    /\ HasPolygons(areas[1]) /\ ~Accepts(areas[1])
    /\ found.kind = "Ok" /\ FoundArea = areas[2] /\ FoundIndex = None

(***************************************************************************)
(* MaaasAreaConfig, src/src/def.rs:1777-1809                               *)
(*                                                                         *)
(* init() and polygons() take &mut self: a caller runs them only while it  *)
(* holds the exclusive borrow of the value, which is modelled by borrow.   *)
(* The build loop of init() is modelled one area per step, so that the     *)
(* partially built map is a state of the model.                            *)
(***************************************************************************)

\* HashMap::insert
map_insert(m, k, v) == [x \in DOMAIN m \cup {k} |-> IF x = k THEN v ELSE m[x]]

\* HashMap::get
map_get(m, k) == IF k \in DOMAIN m THEN Some(m[k]) ELSE None

\* def.rs:1794-1797: the (lng, lat) pairs of the coords of a ConfigPolygon.
ring_of(p) == [i \in 1..Len(p.coords) |-> [x |-> p.coords[i].lng, y |-> p.coords[i].lat]]

\* Mutant: only the first configured polygon of an area is built.
build_polygons_first_only(a) ==
    [i \in 1..(IF a.polygons = <<>> THEN 0 ELSE 1) |-> polygon_new(ring_of(a.polygons[i]))]

\* def.rs:1792-1799: the polygon list built for one ConfigArea.
build_polygons(a) ==
    [i \in 1..Len(a.polygons) |-> polygon_new(ring_of(a.polygons[i]))]

\* Mutant: init() rebuilds on every call.
init_needed_always(flag) == TRUE

\* def.rs:1788-1790: init() returns at once when inited is set.
init_needed(flag) == ~flag

\* Mutant: &self instead of &mut self, any caller may enter at any time.
borrow_shared(b) == TRUE

\* def.rs:1787,1805: &mut self, the call needs the exclusive borrow.
borrow_free(b) == b = 0

\* Bounds of the configurations.
MaxCfgAreas == 2
MaxCfgPolys == 2
MaxBuilds == 2

Callers == {1, 2}
CfgAreaIds == <<"sg", "my", "id", "th">>

\* The k-th configured polygon of an area: a triangle, or, for even k, a
\* polygon without coords.
CfgPolygon(k) ==
    [name |-> "p",
     coords |-> IF k % 2 = 0 THEN <<>>
                ELSE <<[lat |-> 0, lng |-> 0], [lat |-> 0, lng |-> k], [lat |-> k, lng |-> 0]>>]

\* The i-th area of a configuration, with n polygons.
CfgArea(i, n) == [id |-> CfgAreaIds[i], polygons |-> [k \in 1..n |-> CfgPolygon(k)]]

\* The argument of a call: None for init(), Some(id) for polygons(id).
CallArgs == {None} \cup {Some(CfgAreaIds[i]) : i \in 1..(MaxCfgAreas + 1)}

IdleCall == [pc |-> "idle", idx |-> 0, arg |-> None]

InitAreaConfig ==
    /\ pc = "start"
    /\ op = ""
    /\ IdleCore
    /\ IdleLoadPolygons /\ IdleErrorMessage /\ IdleBinaryEncode /\ IdleLookup /\ IdleStatus /\ IdlePolyFile /\ IdleKeys
    /\ \E n \in 0..MaxCfgAreas : \E ps \in [1..n -> 0..MaxCfgPolys] :
         cfg_areas = [i \in 1..n |-> CfgArea(i, ps[i])]
    /\ parsed_areas = <<>>
    /\ inited = FALSE
    /\ borrow = 0
    /\ call = [p \in Callers |-> IdleCall]
    /\ ac_ret = NoResult
    /\ builds = 0
    /\ builder = 0
    /\ stale = FALSE

\* A caller enters init() (arg = None) or polygons(id), def.rs:1787-1790,1806.
EnterAreaConfig(p) ==
    /\ call[p].pc = "idle"
    /\ borrow_free(borrow)
    /\ \E a \in CallArgs :
         IF init_needed(inited)
         THEN /\ call' = [call EXCEPT ![p] = [pc |-> "build", idx |-> 1, arg |-> a]]
              /\ builds' = Min2(builds + 1, MaxBuilds)
         ELSE /\ call' = [call EXCEPT ![p] = [pc |-> "built", idx |-> 0, arg |-> a]]
              /\ builds' = builds
    /\ borrow' = p
    /\ UNCHANGED <<op, cfg_areas, parsed_areas, inited, ac_ret, builder, stale, acRest>>

\* def.rs:1791-1801: one iteration of the loop over self.areas.
BuildArea(p) ==
    /\ call[p].pc = "build"
    /\ call[p].idx <= Len(cfg_areas)
    /\ LET a == cfg_areas[call[p].idx]
       IN  parsed_areas' = map_insert(parsed_areas, a.id, build_polygons(a))
    /\ call' = [call EXCEPT ![p].idx = @ + 1]
    /\ UNCHANGED <<op, cfg_areas, inited, borrow, ac_ret, builds, builder, stale, acRest>>

\* def.rs:1802: the loop is over, inited is set.
BuildEnd(p) ==
    /\ call[p].pc = "build"
    /\ call[p].idx > Len(cfg_areas)
    /\ inited' = TRUE
    /\ builder' = p
    /\ call' = [call EXCEPT ![p].pc = "built"]
    /\ UNCHANGED <<op, cfg_areas, parsed_areas, borrow, ac_ret, builds, stale, acRest>>

\* def.rs:1803 and def.rs:1807: init() returns, polygons() returns its lookup.
ReturnAreaConfig(p) ==
    /\ call[p].pc = "built"
    /\ IF call[p].arg = None
       THEN /\ op' = "init"
            /\ ac_ret' = Ok([arg |-> None, val |-> None])
       ELSE /\ op' = "polygons"
            /\ ac_ret' = Ok([arg |-> call[p].arg,
                             val |-> map_get(parsed_areas, call[p].arg[1])])
    /\ call' = [call EXCEPT ![p] = IdleCall]
    /\ borrow' = 0
    /\ UNCHANGED <<cfg_areas, parsed_areas, inited, builds, builder, stale, acRest>>

\* The owner of the value changes the pub field areas between two calls:
\* areas.push(..) or areas.pop().
MutateAreas ==
    /\ borrow = 0
    /\ \/ /\ Len(cfg_areas) < MaxCfgAreas
          /\ \E n \in 0..MaxCfgPolys :
               cfg_areas' = Append(cfg_areas, CfgArea(Len(cfg_areas) + 1, n))
       \/ /\ cfg_areas # <<>>
          /\ cfg_areas' = SubSeq(cfg_areas, 1, Len(cfg_areas) - 1)
    /\ stale' = (stale \/ builds > 0)
    /\ op' = "mutate"
    /\ UNCHANGED <<parsed_areas, inited, borrow, call, ac_ret, builds, builder, acRest>>

NextAreaConfig ==
    \/ \E p \in Callers : EnterAreaConfig(p)
    \/ \E p \in Callers : BuildArea(p)
    \/ \E p \in Callers : BuildEnd(p)
    \/ \E p \in Callers : ReturnAreaConfig(p)
    \/ MutateAreas

SpecAreaConfig == InitAreaConfig /\ [][NextAreaConfig]_vars

\* The ids of the areas of the configuration.
CfgIds == {cfg_areas[i].id : i \in 1..Len(cfg_areas)}

\* C11: once inited is set (after the first init() or polygons() call),
\* no step changes parsed_areas, whatever init() / polygons() calls and
\* mutations of areas follow, and the build loop is entered at most once.
C11_ParsedAreasFrozen ==
    [][(inited => parsed_areas' = parsed_areas) /\ builds' <= 1]_vars

\* C11 witness: after the build an area was pushed to areas, and a later
\* polygons() call for it found no entry: parsed_areas did not follow.
C11_Witness ==
    /\ inited /\ stale /\ builds = 1
    /\ op = "polygons" /\ ac_ret.kind = "Ok"
    /\ ac_ret.val.arg # None /\ ac_ret.val.arg[1] \in CfgIds
    /\ ac_ret.val.arg[1] \notin DOMAIN parsed_areas
    /\ ac_ret.val.val = None

\* C12: with several callers making their first access, in every state where
\* inited is set parsed_areas has an entry for every area id of the
\* configuration the build ran on, and the build loop is not entered twice.
C12_NoPartialMapWhenInited ==
    /\ (inited /\ ~stale) => CfgIds \subseteq DOMAIN parsed_areas
    /\ builds <= 1

\* C12 witness: caller 2 is inside polygons() and sees inited set, on a map
\* of two areas that caller 1 built.
C12_Witness ==
    /\ inited /\ ~stale /\ builder = 1 /\ builds = 1
    /\ borrow = 2 /\ call[2].pc = "built" /\ call[2].arg # None
    /\ Len(cfg_areas) >= 2
    /\ CfgIds = DOMAIN parsed_areas

\* The area of the configuration with the given id.
ConfiguredArea(id) == cfg_areas[CHOOSE i \in 1..Len(cfg_areas) : cfg_areas[i].id = id]

TextLine(t) == [swt |-> FALSE, text |-> t, items |-> <<None>>]
CoordLine(its) == [swt |-> TRUE, text |-> "", items |-> its]

\* poly.rs:19-44: the effect of one line on (mode, coords, polygons).
poly_line(st, line) ==
    IF st.kind = "Panic" THEN st
    ELSE IF st.mode = 0
    THEN IF line.swt THEN [st EXCEPT !.mode = 1] ELSE st
    ELSE LET pushed ==
                 IF line.swt /\ Len(line.items) = 2
                 THEN IF line.items[1] = None \/ line.items[2] = None
                      THEN Panic("called Result::unwrap() on an Err value")
                      ELSE [st EXCEPT !.coords =
                               Append(@, [x |-> line.items[1][1], y |-> line.items[2][1]])]
                 ELSE st
         IN  IF pushed.kind = "Panic" THEN pushed
             ELSE IF line.text = "END"
             THEN [pushed EXCEPT !.mode = 0,
                                 !.polygons = Append(@, polygon_new(pushed.coords)),
                                 !.coords = <<>>]
             ELSE pushed

RECURSIVE poly_lines(_, _, _)
poly_lines(st, lines, i) ==
    IF i > Len(lines) THEN st ELSE poly_lines(poly_line(st, lines[i]), lines, i + 1)

\* poly.rs:10-47
poly_load(lines) ==
    LET st == poly_lines([kind |-> "Ok", mode |-> 0, coords |-> <<>>, polygons |-> <<>>],
                         lines, 1)
    IN  IF st.kind = "Panic" THEN st ELSE Ok(st.polygons)

\* poly.rs:4-8: the file is read with expect(), then parsed.
load_poly(file) ==
    IF file = None THEN Panic("Something went wrong reading the file")
    ELSE poly_load(file[1])

\* char::is_whitespace for the white space of a .poly line
is_whitespace(c) == c \in {" ", "\t"}

\* str::trim_end, poly.rs:16
RECURSIVE trim_end(_)
trim_end(s) ==
    IF s # <<>> /\ is_whitespace(s[Len(s)]) THEN trim_end(SubSeq(s, 1, Len(s) - 1)) ELSE s

\* str::trim, poly.rs:28
RECURSIVE trim_start(_)
trim_start(s) == IF s # <<>> /\ is_whitespace(s[1]) THEN trim_start(Tail(s)) ELSE s
trim(s) == trim_start(trim_end(s))

\* str::replace("\t", " "), poly.rs:17
replace_tabs(s) == [i \in 1..Len(s) |-> IF s[i] = "\t" THEN " " ELSE s[i]]

\* str::split_whitespace, poly.rs:28: the maximal runs without white space.
RECURSIVE split_whitespace_from(_, _, _)
split_whitespace_from(s, i, cur) ==
    IF i > Len(s) THEN (IF cur = <<>> THEN <<>> ELSE <<cur>>)
    ELSE IF is_whitespace(s[i])
         THEN (IF cur = <<>> THEN <<>> ELSE <<cur>>) \o split_whitespace_from(s, i + 1, <<>>)
         ELSE split_whitespace_from(s, i + 1, Append(cur, s[i]))
split_whitespace(s) == split_whitespace_from(s, 1, <<>>)

\* items[k].parse::<f64>(), poly.rs:31-32.  The vertices of the model lie on
\* the integer grid, so a parsed number is its mantissa (its exponent is 0).
parse_item(item) ==
    LET r == parse_f64(item)
    IN  IF r.kind = "Ok" /\ r.val.e = 0 THEN Some(r.val.m) ELSE None

\* poly.rs:16-18 and 28: what _load reads from one line of text.
read_line(line) ==
    LET trimed == trim_end(line)
        replaced == replace_tabs(trimed)
        items == split_whitespace(trim(replaced))
    IN  [swt |-> replaced # <<>> /\ replaced[1] = " ",
         text |-> IF trimed = <<"E", "N", "D">> THEN "END" ELSE "",
         items |-> [k \in 1..Len(items) |-> parse_item(items[k])]]

\* poly.rs:10-47, _load on the lines of the text (str::lines, poly.rs:11)
poly_load_str(lines) == poly_load([i \in 1..Len(lines) |-> read_line(lines[i])])

(***************************************************************************)
(* load_polygons, src/src/lib.rs:480-514                                   *)
(***************************************************************************)

\* Mutant: the remote definitions are consulted whatever skip_maaas is.
use_remote_always(skip) == TRUE

\* lib.rs:494: the remote definitions are consulted unless skip_maaas.
use_remote(skip) == ~skip

\* MaaasAreaConfig::init on the value owned by load_polygons, def.rs:1791-1801
RECURSIVE build_all(_, _, _)
build_all(cfg, i, m) ==
    IF i > Len(cfg) THEN m
    ELSE build_all(cfg, i + 1, map_insert(m, cfg[i].id, build_polygons(cfg[i])))

\* Local .poly files: a block of three vertices between the header lines and
\* the END lines, a file without block, and a file with a vertex line that
\* is not numeric.
PolyFileBlock ==
    <<TextLine("border"), TextLine("area1"),
      CoordLine(<<Some(0), Some(0)>>), CoordLine(<<Some(4), Some(0)>>),
      CoordLine(<<Some(4), Some(4)>>), CoordLine(<<Some(0), Some(4)>>),
      TextLine("END"), TextLine("END")>>
PolyFileEmpty == <<TextLine("border"), TextLine("END")>>
PolyFileBad ==
    <<TextLine("border"), TextLine("area1"),
      CoordLine(<<Some(0), Some(0)>>), CoordLine(<<None, Some(0)>>),
      TextLine("END"), TextLine("END")>>
LocalFiles == {None, Some(PolyFileBlock), Some(PolyFileEmpty), Some(PolyFileBad)}

\* The area names a caller may request.
LoadNames == {CfgAreaIds[i] : i \in 1..MaxCfgAreas}

InitLoadPolygons ==
    /\ pc = "start"
    /\ op = ""
    /\ IdleCore
    /\ IdleErrorMessage /\ IdleBinaryEncode /\ IdleLookup /\ IdleStatus /\ IdlePolyFile /\ IdleKeys
    /\ lp_areas \in SUBSET LoadNames
    /\ skip_maaas \in BOOLEAN
    /\ remote_ok \in BOOLEAN
    /\ IF remote_ok
       THEN \E n \in 0..MaxCfgAreas : \E ps \in [1..n -> 0..MaxCfgPolys] :
               cfg_areas = [i \in 1..n |-> CfgArea(i, ps[i])]
       ELSE cfg_areas = <<>>
    /\ parsed_areas = <<>> /\ inited = FALSE
    /\ borrow = 0 /\ call = <<>> /\ ac_ret = NoResult
    /\ builds = 0 /\ builder = 0 /\ stale = FALSE
    /\ local_files \in [LoadNames -> LocalFiles]
    /\ lp_todo = {}
    /\ lp_polygons = <<>>
    /\ lp_src = <<>>
    /\ lp_ret = NoResult

\* lib.rs:484-492: the empty request, the remote load and its fatal failure.
LoadStart ==
    /\ pc = "start"
    /\ op' = "load_polygons"
    /\ IF lp_areas = {}
       THEN pc' = "done" /\ lp_ret' = Ok(None) /\ lp_todo' = lp_todo
       ELSE IF ~skip_maaas /\ ~remote_ok
       THEN /\ pc' = "done" /\ lp_todo' = lp_todo
            /\ lp_ret' = Panic("failed to load area defs from maaas")
       ELSE pc' = "loop" /\ lp_todo' = lp_areas /\ lp_ret' = lp_ret
    /\ UNCHANGED <<lp_areas, skip_maaas, remote_ok, local_files, lp_polygons, lp_src,
                   cfg_areas, parsed_areas, inited, lpRest>>

\* lib.rs:493-512: one iteration of the loop over the HashSet, whose order
\* is not defined: any area that is left may come next.
LoadArea ==
    /\ pc = "loop"
    /\ \E area_name \in lp_todo :
         LET remote == use_remote(skip_maaas) /\ remote_ok
             built == IF inited THEN parsed_areas ELSE build_all(cfg_areas, 1, parsed_areas)
             ps == IF remote THEN map_get(built, area_name) ELSE None
             local == load_poly(local_files[area_name])
         IN  /\ parsed_areas' = IF remote THEN built ELSE parsed_areas
             /\ inited' = (inited \/ remote)
             /\ lp_todo' = lp_todo \ {area_name}
             /\ IF ps # None
                THEN /\ lp_polygons' = map_insert(lp_polygons, area_name, ps[1])
                     /\ lp_src' = map_insert(lp_src, area_name, "maaas")
                     /\ UNCHANGED <<pc, lp_ret>>
                ELSE IF local.kind = "Panic"
                THEN /\ pc' = "done" /\ lp_ret' = local
                     /\ UNCHANGED <<lp_polygons, lp_src>>
                ELSE /\ lp_polygons' = map_insert(lp_polygons, area_name, local.val)
                     /\ lp_src' = map_insert(lp_src, area_name, "local")
                     /\ UNCHANGED <<pc, lp_ret>>
    /\ UNCHANGED <<op, lp_areas, skip_maaas, remote_ok, local_files, cfg_areas, lpRest>>

\* lib.rs:513
LoadDone ==
    /\ pc = "loop"
    /\ lp_todo = {}
    /\ pc' = "done"
    /\ lp_ret' = Ok(Some(lp_polygons))
    /\ UNCHANGED <<op, lp_areas, skip_maaas, remote_ok, local_files, lp_todo, lp_polygons,
                   lp_src, cfg_areas, parsed_areas, inited, lpRest>>

NextLoadPolygons == LoadStart \/ LoadArea \/ LoadDone

SpecLoadPolygons == InitLoadPolygons /\ [][NextLoadPolygons]_vars

\* The requested areas whose polygons have to come from the local file.
NeedsLocal(n) == skip_maaas \/ n \notin CfgIds
RemoteFatal == lp_areas # {} /\ ~skip_maaas /\ ~remote_ok

\* C14: when load_polygons is over, it has panicked on the remote load
\* exactly when that load failed and skip_maaas is false; a returned map has
\* for every requested area the polygons of the remote definition when
\* skip_maaas is false and the remote config defines the area, and those of
\* its local .poly file in every other case; and when a requested area needs
\* its local file and that file is missing, the call panics.
C14_LoadPolygonsSources ==
    (pc = "done" /\ op = "load_polygons") =>
        /\ lp_ret = Panic("failed to load area defs from maaas") <=> RemoteFatal
        /\ (lp_ret.kind = "Ok" /\ lp_ret.val # None) =>
              /\ DOMAIN lp_ret.val[1] = lp_areas
              /\ \A n \in lp_areas :
                    IF NeedsLocal(n)
                    THEN /\ lp_src[n] = "local"
                         /\ local_files[n] # None
                         /\ lp_ret.val[1][n] = poly_load(local_files[n][1]).val
                    ELSE /\ lp_src[n] = "maaas"
                         /\ lp_ret.val[1][n] =
                               [k \in 1..Len(ConfiguredArea(n).polygons) |->
                                   polygon_new(ring_of(ConfiguredArea(n).polygons[k]))]
        /\ (\E n \in lp_areas : NeedsLocal(n) /\ local_files[n] = None) =>
              lp_ret.kind = "Panic"
        /\ lp_ret = Ok(None) <=> lp_areas = {}

\* C14 witness: without skip_maaas, one requested area came from the remote
\* definition and another one, which the remote config does not define, from
\* its local file.
C14_Witness ==
    /\ pc = "done" /\ op = "load_polygons" /\ ~skip_maaas
    /\ lp_ret.kind = "Ok" /\ lp_ret.val # None
    /\ \E n1, n2 \in lp_areas :
         /\ lp_src[n1] = "maaas" /\ n1 \in CfgIds
         /\ lp_src[n2] = "local" /\ n2 \notin CfgIds

(***************************************************************************)
(* .poly files: a header line, then blocks made of a name line, indented   *)
(* "<lng> <lat>" vertex lines and an END line, then a final END line.      *)
(***************************************************************************)
MaxVertexLines == 4    \* vertex lines of a block
MaxBlocks == 2         \* blocks of a file

\* The vertices of the lower left triangle of the box 0..4 x 0..4.
PolyVertices == {[x |-> 0, y |-> 0], [x |-> 4, y |-> 0], [x |-> 0, y |-> 4]}
PolyBlocks == SeqsUpTo(PolyVertices, MaxVertexLines) \ {<<>>}

\* How the vertex lines are written: indentation, separator and line end.
TabStyle == [indent |-> <<"\t">>, sep |-> <<"\t">>, eol |-> <<>>]
SpaceStyle == [indent |-> <<" ", " ", " ">>, sep |-> <<" ">>, eol |-> <<" ">>]
PolyStyles == {TabStyle, SpaceStyle}

VertexLine(v, style) ==
    style.indent \o nat_digits(v.x) \o style.sep \o nat_digits(v.y) \o style.eol

BlockLines(block, k, style) ==
    <<<<"a", nat_digits(k)[1]>>>>
        \o [i \in 1..Len(block) |-> VertexLine(block[i], style)]
        \o <<<<"E", "N", "D">>>>

RECURSIVE BlocksLines(_, _, _)
BlocksLines(blocks, k, style) ==
    IF k > Len(blocks) THEN <<>>
    ELSE BlockLines(blocks[k], k, style) \o BlocksLines(blocks, k + 1, style)

\* The text of the file that describes the blocks.
PolyFile(blocks, style) ==
    <<<<"b", "o", "r", "d", "e", "r", " ">>>> \o BlocksLines(blocks, 1, style)
        \o <<<<"E", "N", "D">>>>

\* A point inside the triangle and one outside of it.
PolyProbes == {[lat |-> 1, lng |-> 1], [lat |-> 3, lng |-> 3]}

InitPolyFile ==
    /\ pc = "start"
    /\ op = ""
    /\ IdleCore
    /\ IdleAreaConfig /\ IdleLoadPolygons /\ IdleErrorMessage /\ IdleBinaryEncode
    /\ IdleLookup /\ IdleStatus /\ IdleKeys
    /\ pf_blocks \in SeqsUpTo(PolyBlocks, MaxBlocks) \ {<<>>}
    /\ \E style \in PolyStyles : pf_lines = PolyFile(pf_blocks, style)
    /\ pf_point \in PolyProbes
    /\ pf_ret = NoResult
    /\ pf_inside = NoResult

\* _load(&contents)
CallPolyLoad ==
    /\ pc = "start"
    /\ pc' = "parsed"
    /\ op' = "_load"
    /\ pf_ret' = poly_load_str(pf_lines)
    /\ UNCHANGED <<pf_blocks, pf_lines, pf_point, pf_inside, pfRest>>

\* pf_point.is_in_polygons(&polygons) on the polygons that _load returned
CallIsInParsed ==
    /\ pc = "parsed" /\ pf_ret.kind = "Ok"
    /\ pc' = "done"
    /\ op' = "is_in_polygons"
    /\ pf_inside' = is_in_polygons(pf_point, pf_ret.val)
    /\ UNCHANGED <<pf_blocks, pf_lines, pf_point, pf_ret, pfRest>>

NextPolyFile == CallPolyLoad \/ CallIsInParsed

SpecPolyFile == InitPolyFile /\ [][NextPolyFile]_vars

(***************************************************************************)
(* Claims about the .poly parser (SpecPolyFile)                            *)
(***************************************************************************)

\* The polygon a block describes: its vertex lines in file order, closed.
Described(b) == polygon_new(pf_blocks[b])

\* A closed ring without its closing vertex.
OpenRing(ring) == IF Len(ring) > 1 THEN SubSeq(ring, 1, Len(ring) - 1) ELSE ring

\* Two rings are the same cycle of vertices, whatever vertex they start at.
SameRing(r1, r2) ==
    LET o1 == OpenRing(r1)
        o2 == OpenRing(r2)
        n == Len(o1)
    IN  /\ Len(o2) = n
        /\ \E k \in 0..n : \A i \in 1..n : o1[i] = o2[((i + k - 1) % n) + 1]

\* C25: _load yields exactly one polygon per named block, whose ring consists
\* of all the vertex lines of the block in file order; the result is the
\* same for tab and for space indentation; and a point inside a described
\* boundary is contained in one of the parsed polygons.
C25_PolyBlocksParsed ==
    /\ pc \in {"parsed", "done"} =>
        /\ pf_ret.kind = "Ok"
        /\ Len(pf_ret.val) = Len(pf_blocks)
        /\ \A b \in 1..Len(pf_blocks) : SameRing(pf_ret.val[b], Described(b))
        /\ \A style \in PolyStyles : poly_load_str(PolyFile(pf_blocks, style)) = pf_ret
    /\ (pc = "done"
        /\ \E b \in 1..Len(pf_blocks) : contains(Described(b), geo_point(pf_point)))
          => pf_inside = Ok(TRUE)

\* C28: is_in_polygons returns a result for every polygon list that _load
\* produces, also for one that holds a polygon whose ring has no vertices
\* (a block with a single indented line): such a polygon contains no point
\* and does not abort the test of the other polygons.
C28_IsInPolygonsNeverAborts ==
    pc = "done" =>
        /\ pf_inside.kind = "Ok"
        /\ pf_inside.val = SomePolygonContains(pf_point, pf_ret.val)

(***************************************************************************)
(* handle_error_message, src/src/lib.rs:516-653, and AdaptError::to_string,*)
(* src/src/def.rs:126-155.  Enum values are the names of their variants.   *)
(***************************************************************************)

\* def.rs:126-155
to_string(e) ==
    CASE e = "OutputRouteFailed" -> "There is no route for input"
      [] e = "OutputInvalidOption" -> "Wrong parameters or lack required parameters"
      [] e = "OutputUnclassifiedError" -> "Failed, unclassified error"
      [] e = "OutputCoordinatesInvalid" -> "Invalid coordinates"
      [] e = "OutputTooBig" -> "Request exceeds the max limit"
      [] e = "OutputNotImplemented" -> "request is not supported"
      [] e = "OutputNoSegment" ->
            "There is at least one coordinate can not be snapped to the street"
      [] e = "OutputNoTable" -> "No table found"
      [] e = "OutputNoTableNode" -> "Invalid origins or destination input for table"
      [] e = "OutputInvalidValue" -> "Invalid value for input"
      [] e = "OutputNoMatch" -> "Could not match the trace"
      [] e = "OutputNoTrips" -> "No trip visiting all destinations possible"
      [] e = "OutputMethodNotAllowed" -> "only support post&get methods"
      [] e = "OutputInternalServerError" -> "internal server error"
      [] e = "OutputInvalidUrl" -> "URL string is invalid"
      [] e = "OutputDistanceExceeded" -> "Exceeds the max distance limit"
      [] e = "OutputInvalidLocation" -> "Invalid location"
      [] e = "OutputFailed" -> "failed"

\* def.rs:105-124
AdaptErrors ==
    {"OutputRouteFailed", "OutputInvalidOption", "OutputUnclassifiedError",
     "OutputCoordinatesInvalid", "OutputTooBig", "OutputNotImplemented",
     "OutputNoSegment", "OutputNoTable", "OutputNoTableNode", "OutputInvalidValue",
     "OutputNoMatch", "OutputNoTrips", "OutputMethodNotAllowed",
     "OutputInternalServerError", "OutputInvalidUrl", "OutputDistanceExceeded",
     "OutputInvalidLocation", "OutputFailed"}

\* Mutant: the engine name is compared without regard to case.
engine_mode_input_any_case(engine) ==
    IF engine \in {"osrm", "OSRM"} THEN "OSRM" ELSE "Valhalla"

\* lib.rs:527-532
engine_mode_input(engine) == IF engine = "osrm" THEN "OSRM" ELSE "Valhalla"

\* lib.rs:637-653
adapt_err_message(message) ==
    CASE message = "Failed to parse json request" -> "InputFailedToParseJsonRequest"
      [] message = "No path could be found for input" -> "InputNoPath"
      [] message = "Failed to parse location" -> "InputFailedToParseLocation"
      [] message = "Failed to parse source" -> "InputFailedToParseSource"
      [] message = "Failed to parse target" -> "InputFailedToParseTarget"
      [] message = "Insufficiently specified required parameter 'locations'" ->
            "InputInsufficientLocations"
      [] message = "Insufficiently specified required parameter 'locations' or 'sources & targets'" ->
            "InputInsufficientLocationsOrSourcesTargets"
      [] message = "Insufficient number of locations provided" ->
            "InputInsufficientLocationsProvided"
      [] message = "Insufficient number of sources provided" ->
            "InputInsufficientSourcesProvided"
      [] message = "Insufficient number of targets provided" ->
            "InputInsufficientTargetsProvided"
      [] message = "No table found, no valid input node" -> "InputInvalidInputTable"
      [] OTHER -> "InputUnknown"

\* lib.rs:535-552
valhalla_error_type(code) ==
    CASE code = "Bad Request" -> "BadRequest"
      [] code = "Not Implemented" -> "NotImplemented"
      [] code = "Not Found" -> "NotFound"
      [] code = "Method Not Allowed" -> "MethodNotAllowed"
      [] code = "Internal Server Error" -> "InternalServerError"
      [] code \in {"InvalidUrl", "InvalidService", "InvalidOptions", "InvalidValue",
                   "NoRoute", "NoSegment", "ServiceUnavailable", "DistanceExceeded",
                   "PerimeterExceeded", "BreakageDistanceExceeded"} -> code
      [] OTHER -> "UnknownError"

\* lib.rs:557-568
osrm_error_type(code) ==
    IF code \in {"TooBig", "NotImplemented", "InvalidOptions", "NoSegment", "NoTable",
                 "InvalidValue", "NoMatch", "NoTrips", "NoRoute"}
    THEN code ELSE "UnknownError"

\* Mutant: an error type without a public error is answered with the raw
\* backend message.
handle_valhalla_err_message_raw(error_type, message) ==
    IF error_type \in {"NoRoute", "BadRequest"} THEN to_string("OutputRouteFailed")
    ELSE message

\* lib.rs:572-602
handle_valhalla_err_message(error_type, message) ==
    LET msg ==
          CASE error_type = "BadRequest" ->
                 IF adapt_err_message(message) = "InputNoPath"
                 THEN "OutputRouteFailed" ELSE "OutputUnclassifiedError"
            [] error_type = "NotImplemented" -> "OutputNotImplemented"
            [] error_type = "MethodNotAllowed" -> "OutputMethodNotAllowed"
            [] error_type = "InternalServerError" -> "OutputInternalServerError"
            [] error_type = "InvalidUrl" -> "OutputInvalidUrl"
            [] error_type = "NoSegment" -> "OutputNoSegment"
            [] error_type = "InvalidOptions" -> "OutputInvalidOption"
            [] error_type = "NoRoute" -> "OutputRouteFailed"
            [] error_type = "InvalidValue" ->
                 IF adapt_err_message(message) \in
                      {"InputFailedToParseLocation", "InputFailedToParseSource",
                       "InputFailedToParseTarget", "InputInsufficientLocations",
                       "InputInsufficientLocationsOrSourcesTargets",
                       "InputInsufficientLocationsProvided",
                       "InputInsufficientSourcesProvided",
                       "InputInsufficientTargetsProvided"}
                 THEN "OutputInvalidLocation" ELSE "OutputInvalidValue"
            [] error_type \in {"DistanceExceeded", "PerimeterExceeded",
                               "BreakageDistanceExceeded"} -> "OutputTooBig"
            [] OTHER -> "OutputUnclassifiedError"
    IN  to_string(msg)

\* lib.rs:604-635
handle_osrm_err_message(error_type, message) ==
    LET msg ==
          CASE error_type = "NoRoute" -> "OutputRouteFailed"
            [] error_type = "InvalidOptions" ->
                 IF adapt_err_message(message) = "InputCoordinatesInvalid"
                 THEN "OutputCoordinatesInvalid" ELSE "OutputInvalidOption"
            [] error_type = "TooBig" -> "OutputTooBig"
            [] error_type = "NotImplemented" -> "OutputNotImplemented"
            [] error_type = "NoSegment" -> "OutputNoSegment"
            [] error_type = "NoTable" ->
                 IF adapt_err_message(message) = "InputInvalidInputTable"
                 THEN "OutputNoTableNode" ELSE "OutputNoTable"
            [] error_type = "InvalidValue" -> "OutputInvalidValue"
            [] error_type = "NoMatch" -> "OutputNoMatch"
            [] error_type = "NoTrips" -> "OutputNoTrips"
            [] OTHER -> "OutputUnclassifiedError"
    IN  to_string(msg)

\* lib.rs:534-554
error_handle_valhalla(code, message) ==
    handle_valhalla_err_message(valhalla_error_type(code), message)

\* lib.rs:556-570
error_handle_osrm(code, message) ==
    handle_osrm_err_message(osrm_error_type(code), message)

\* lib.rs:516-525
handle_error_message(engine, code, message) ==
    IF engine_mode_input(engine) = "OSRM"
    THEN error_handle_osrm(code, message)
    ELSE error_handle_valhalla(code, message)

\* The strings of the message table of adapt_err_message.
TableMessages ==
    {"Failed to parse json request", "No path could be found for input",
     "Failed to parse location", "Failed to parse source", "Failed to parse target",
     "Insufficiently specified required parameter 'locations'",
     "Insufficiently specified required parameter 'locations' or 'sources & targets'",
     "Insufficient number of locations provided",
     "Insufficient number of sources provided",
     "Insufficient number of targets provided",
     "No table found, no valid input node"}

ValhallaCodes ==
    {"Bad Request", "Not Implemented", "Not Found", "Method Not Allowed",
     "Internal Server Error", "InvalidUrl", "InvalidService", "InvalidOptions",
     "InvalidValue", "NoRoute", "NoSegment", "ServiceUnavailable", "DistanceExceeded",
     "PerimeterExceeded", "BreakageDistanceExceeded"}
OsrmCodes ==
    {"TooBig", "NotImplemented", "InvalidOptions", "NoSegment", "NoTable",
     "InvalidValue", "NoMatch", "NoTrips", "NoRoute"}

\* The inputs: any engine, code and message string, among them strings that
\* no table knows.
EngineInputs == {"osrm", "valhalla", "OSRM", ""}
CodeInputs == ValhallaCodes \cup OsrmCodes \cup {"", "BadRequest", "Teapot"}
MessageInputs ==
    TableMessages \cup {"", "Coordinates are invalid", "segfault at 0x0 in libvalhalla.so"}

InitErrorMessage ==
    /\ pc = "start"
    /\ op = ""
    /\ IdleCore
    /\ IdleAreaConfig /\ IdleLoadPolygons /\ IdleBinaryEncode /\ IdleLookup /\ IdleStatus /\ IdlePolyFile /\ IdleKeys
    /\ em_engine \in EngineInputs
    /\ em_code \in CodeInputs
    /\ em_message \in MessageInputs
    /\ em_ret = NoResult

CallHandleErrorMessage ==
    /\ pc = "start"
    /\ pc' = "done"
    /\ op' = "handle_error_message"
    /\ em_ret' = Ok(handle_error_message(em_engine, em_code, em_message))
    /\ UNCHANGED <<em_engine, em_code, em_message, emRest>>

NextErrorMessage == CallHandleErrorMessage

SpecErrorMessage == InitErrorMessage /\ [][NextErrorMessage]_vars

\* The fixed public error texts.
PublicTexts == {to_string(e) : e \in AdaptErrors}

\* What the lookup tables make of an input: the engine, the error type of
\* the code in that engine, and the entry of the message table.
Classified(engine, code, message) ==
    <<engine_mode_input(engine),
      IF engine_mode_input(engine) = "OSRM"
      THEN osrm_error_type(code) ELSE valhalla_error_type(code),
      adapt_err_message(message)>>

\* C15: for every engine, code and message, handle_error_message returns
\* (it does not fail) one of the fixed public error texts, and the text is
\* the same for all inputs that the lookup tables do not tell apart.
C15_ErrorTextIsPublic ==
    (pc = "done" /\ op = "handle_error_message") =>
        /\ em_ret.kind = "Ok"
        /\ em_ret.val \in PublicTexts
        /\ \A e \in EngineInputs, c \in CodeInputs, m \in MessageInputs :
             Classified(e, c, m) = Classified(em_engine, em_code, em_message) =>
                handle_error_message(e, c, m) = em_ret.val

\* C15 witness: an engine, a code and a message that no table knows are
\* answered with the unclassified public error.
C15_Witness ==
    /\ pc = "done" /\ op = "handle_error_message"
    /\ em_engine = "" /\ em_code = "Teapot"
    /\ em_message = "segfault at 0x0 in libvalhalla.so"
    /\ em_ret = Ok("Failed, unclassified error")

\* The six ambiguous error types.
AmbiguousTypes ==
    {"BadRequest", "InvalidOptions", "InvalidValue", "InvalidUrl", "NotImplemented",
     "NoTable"}

\* The message changes the public error of the error type t in some engine
\* that recognizes t.
IsRefined(t) ==
    \/ \E c \in OsrmCodes, m \in TableMessages :
         /\ osrm_error_type(c) = t
         /\ handle_error_message("osrm", c, m) # handle_error_message("osrm", c, "")
    \/ \E c \in ValhallaCodes, m \in TableMessages :
         /\ valhalla_error_type(c) = t
         /\ handle_error_message("valhalla", c, m) # handle_error_message("valhalla", c, "")

\* C16: when the code of the call is one of the ambiguous codes BadRequest,
\* InvalidOptions, InvalidValue, InvalidUrl, NotImplemented and NoTable,
\* there is a message of the fixed table for which the public error differs
\* from the one of an unknown message, in an engine that recognizes the code.
C16_AmbiguousCodesAreRefined ==
    (/\ pc = "done" /\ op = "handle_error_message"
     /\ Classified(em_engine, em_code, em_message)[2] \in AmbiguousTypes)
        => IsRefined(Classified(em_engine, em_code, em_message)[2])

\* The code table that the engine string selects: the OSRM table for "osrm"
\* and the Valhalla table for every other string.
SelectedCodes(engine) == IF engine = "osrm" THEN OsrmCodes ELSE ValhallaCodes

\* C24: with a code that is not in the code table of the selected engine,
\* handle_error_message returns "Failed, unclassified error" for every
\* message.
C24_UnknownCodeIsUnclassified ==
    (/\ pc = "done" /\ op = "handle_error_message"
     /\ em_code \notin SelectedCodes(em_engine))
        => em_ret = Ok("Failed, unclassified error")

\* C24 witness: the engine string "OSRM" selects the Valhalla table, which
\* does not hold the OSRM code "TooBig"; a message of the table changes
\* nothing.
C24_Witness ==
    /\ pc = "done" /\ op = "handle_error_message"
    /\ em_engine = "OSRM" /\ em_code = "TooBig"
    /\ em_message = "No path could be found for input"
    /\ em_ret = Ok("Failed, unclassified error")

(***************************************************************************)
(* MatrixOutput::binary_encode and encode, src/src/def.rs:1556-1578        *)
(*                                                                         *)
(* An unsigned integer is the sequence of its 16-bit limbs, least          *)
(* significant first: four limbs for u64 (IntValue::value), two for u32.   *)
(***************************************************************************)
Limb == 65536

\* usize as u32, for the lengths of the vectors (def.rs:1560)
len_as_u32(n) == <<n % Limb, (n \div Limb) % Limb>>

\* u64 as u32 (def.rs:1565): the low 32 bits.
as_u32(v) == <<v[1], v[2]>>

\* Mutant: the four bytes of a u32, most significant first.
be_bytes(u) == <<u[2] \div 256, u[2] % 256, u[1] \div 256, u[1] % 256>>

\* LittleEndian::write_u32_into for one number (def.rs:1576)
le_bytes(u) == <<u[1] % 256, u[1] \div 256, u[2] % 256, u[2] \div 256>>

\* def.rs:1573-1578
encode(duration, distance) == le_bytes(duration) \o le_bytes(distance)

\* def.rs:1564-1567: the records of the elements i.. of one row.
RECURSIVE encode_row(_, _)
encode_row(elements, i) ==
    IF i > Len(elements) THEN <<>>
    ELSE encode(as_u32(elements[i].duration.value), as_u32(elements[i].distance.value))
            \o encode_row(elements, i + 1)

\* def.rs:1563-1568: the records of the rows i..
RECURSIVE encode_rows(_, _)
encode_rows(rows, i) ==
    IF i > Len(rows) THEN <<>>
    ELSE encode_row(rows[i].elements, 1) \o encode_rows(rows, i + 1)

\* def.rs:1557-1570; rows[0] of an empty matrix is out of bounds.
binary_encode(rows) ==
    IF rows = <<>>
    THEN Panic("index out of bounds: the len is 0 but the index is 0")
    ELSE Ok(encode(len_as_u32(Len(rows)), len_as_u32(Len(rows[1].elements)))
               \o encode_rows(rows, 1))

\* Bounds of the matrices.
MaxRows == 2
MaxCols == 2

\* Element values: 65 s / 1200 m, 0 / 2^32 - 1, and 2^32 + 5 / 65536.
U64(w1, w2, w3, w4) == <<w1, w2, w3, w4>>
Element(duration, distance) ==
    [duration |-> [value |-> duration], distance |-> [value |-> distance]]
Elements ==
    {Element(U64(65, 0, 0, 0), U64(1200, 0, 0, 0)),
     Element(U64(0, 0, 0, 0), U64(65535, 65535, 0, 0)),
     Element(U64(5, 0, 1, 0), U64(0, 1, 0, 0))}
MatrixRows == {[elements |-> es] : es \in SeqsUpTo(Elements, MaxCols)}

InitBinaryEncode ==
    /\ pc = "start"
    /\ op = ""
    /\ IdleCore
    /\ IdleAreaConfig /\ IdleLoadPolygons /\ IdleErrorMessage /\ IdleLookup /\ IdleStatus /\ IdlePolyFile /\ IdleKeys
    /\ be_rows \in SeqsUpTo(MatrixRows, MaxRows)
    /\ be_ret = NoResult

CallBinaryEncode ==
    /\ pc = "start"
    /\ pc' = "done"
    /\ op' = "binary_encode"
    /\ be_ret' = binary_encode(be_rows)
    /\ UNCHANGED <<be_rows, beRest>>

NextBinaryEncode == CallBinaryEncode

SpecBinaryEncode == InitBinaryEncode /\ [][NextBinaryEncode]_vars

\* The elements of the matrix in row-major order.
RECURSIVE RowMajor(_, _)
RowMajor(rows, i) ==
    IF i > Len(rows) THEN <<>> ELSE rows[i].elements \o RowMajor(rows, i + 1)

\* The 32-bit number that four bytes hold in little-endian order, as limbs.
FromLittleEndian(bytes, at) ==
    <<bytes[at] + 256 * bytes[at + 1], bytes[at + 2] + 256 * bytes[at + 3]>>

\* C17: encode(65, 1200) = [65,0,0,0,176,4,0,0]; binary_encode of a
\* non-empty matrix has 8 * (1 + number of elements) bytes, each between 0
\* and 255: the first record holds the row count and the column count of
\* row 0 and the k-th following record holds the duration and the distance
\* of the k-th element in row-major order (their low 32 bits), each as a
\* little-endian unsigned 32-bit integer, duration first.
C17_BinaryLayout ==
    /\ encode(<<65, 0>>, <<1200, 0>>) = <<65, 0, 0, 0, 176, 4, 0, 0>>
    /\ (pc = "done" /\ op = "binary_encode" /\ be_rows # <<>>) =>
          LET es == RowMajor(be_rows, 1)
              b == be_ret.val
          IN  /\ be_ret.kind = "Ok"
              /\ Len(b) = 8 * (1 + Len(es))
              /\ \A i \in 1..Len(b) : b[i] \in 0..255
              /\ FromLittleEndian(b, 1) = <<Len(be_rows), 0>>
              /\ FromLittleEndian(b, 5) = <<Len(be_rows[1].elements), 0>>
              /\ \A k \in 1..Len(es) :
                    /\ FromLittleEndian(b, 8 * k + 1) =
                          <<es[k].duration.value[1], es[k].duration.value[2]>>
                    /\ FromLittleEndian(b, 8 * k + 5) =
                          <<es[k].distance.value[1], es[k].distance.value[2]>>

\* C17 witness: a matrix of two rows whose first element is (65, 1200) is
\* encoded with the header (2, columns of row 0) and the record
\* [65,0,0,0,176,4,0,0].
C17_Witness ==
    /\ pc = "done" /\ op = "binary_encode" /\ be_ret.kind = "Ok"
    /\ Len(be_rows) = 2 /\ Len(be_rows[1].elements) = 2 /\ Len(be_rows[2].elements) = 1
    /\ be_rows[1].elements[1] = Element(U64(65, 0, 0, 0), U64(1200, 0, 0, 0))
    /\ SubSeq(be_ret.val, 1, 16) = <<2, 0, 0, 0, 2, 0, 0, 0, 65, 0, 0, 0, 176, 4, 0, 0>>
    /\ Len(be_ret.val) = 32

\* The u64 that a decoder reads from the 32-bit number at a position.
DecodedU64(bytes, at) ==
    LET u == FromLittleEndian(bytes, at) IN U64(u[1], u[2], 0, 0)

\* C30: binary_encode alters no value: the 32-bit duration and distance of
\* every record, read back, are the 64-bit duration.value and distance.value
\* of the element (no value is reduced modulo 2^32), and the header holds
\* the number of rows and the number of columns.
C30_EncodeKeepsValues ==
    (pc = "done" /\ op = "binary_encode" /\ be_rows # <<>>) =>
        LET es == RowMajor(be_rows, 1)
            b == be_ret.val
        IN  /\ be_ret.kind = "Ok"
            /\ DecodedU64(b, 1) = U64(Len(be_rows), 0, 0, 0)
            /\ DecodedU64(b, 5) = U64(Len(be_rows[1].elements), 0, 0, 0)
            /\ \A k \in 1..Len(es) :
                  /\ DecodedU64(b, 8 * k + 1) = es[k].duration.value
                  /\ DecodedU64(b, 8 * k + 5) = es[k].distance.value

(***************************************************************************)
(* MaaasConfig::lookup, src/src/def.rs:1822-1857                           *)
(***************************************************************************)

\* util.rs:54-66 for two points on the equator, where the central angle is
\* the difference of the longitudes: the distance in units of
\* EARTH_RADIUS_METER * pi / 180.
straight_distance(lat1, lng1, lat2, lng2) ==
    IF lng1 >= lng2 THEN lng1 - lng2 ELSE lng2 - lng1

\* def.rs:1717-1719
distance(a, b) == straight_distance(a.lat, a.lng, b.lat, b.lng)

\* def.rs:1825-1830: the first cluster with the given id.
RECURSIVE find_cluster(_, _, _)
find_cluster(clusters, cluster_id, i) ==
    IF i > Len(clusters) THEN None
    ELSE IF clusters[i].id = cluster_id THEN Some(clusters[i])
    ELSE find_cluster(clusters, cluster_id, i + 1)

\* r occurs in the list l
serves(l, r) == \E k \in 1..Len(l) : l[k] = r

\* Mutant: an equally near cluster replaces the tracked one.
is_nearer_or_equal(min_dist, dist) == min_dist < 0 \/ min_dist >= dist

\* def.rs:1845
is_nearer(min_dist, dist) == min_dist < 0 \/ min_dist > dist

\* def.rs:1841-1851: the loop over the clusters i.. with the tracked
\* (min_dist, proxy_address).
RECURSIVE nearest_from(_, _, _, _, _)
nearest_from(clusters, self_cluster, nbroute, i, st) ==
    IF i > Len(clusters) THEN st
    ELSE LET cluster == clusters[i]
             dist == distance(self_cluster.location, cluster.location)
         IN  nearest_from(clusters, self_cluster, nbroute, i + 1,
                IF serves(cluster.nbroutes, nbroute) /\ is_nearer(st.min_dist, dist)
                THEN [min_dist |-> dist, proxy_address |-> Some(cluster.address)]
                ELSE st)

\* def.rs:1823-1856
lookup(clusters, cluster_id, nbroute) ==
    LET self_cluster == find_cluster(clusters, cluster_id, 1)
    IN  IF self_cluster = None THEN None
        ELSE IF serves(self_cluster[1].nbroutes, nbroute)
        THEN Some([local |-> TRUE, proxy_address |-> None])
        ELSE LET st == nearest_from(clusters, self_cluster[1], nbroute, 1,
                                    [min_dist |-> 0 - 1, proxy_address |-> None])
             IN  IF st.proxy_address = None THEN None
                 ELSE Some([local |-> FALSE, proxy_address |-> Some(st.proxy_address[1])])

\* Bound of the configurations.
MaxClusters == 3

ClusterIds == <<"aks-sg", "aks-ld", "aks-us", "aks-in", "aks-jp">>
RouteLists == {<<>>, <<"singapore-4w">>, <<"india-4w">>, <<"singapore-4w", "india-4w">>}
Longitudes == {0, 10, 20}

\* The i-th cluster of a configuration; its address is named after its id.
ClusterAt(i, routes, lng) ==
    [id |-> ClusterIds[i], address |-> <<"https", ClusterIds[i]>>,
     nbroutes |-> routes, location |-> [lat |-> 0, lng |-> lng]]

InitLookup ==
    /\ pc = "start"
    /\ op = ""
    /\ IdleCore
    /\ IdleAreaConfig /\ IdleLoadPolygons /\ IdleErrorMessage /\ IdleBinaryEncode
    /\ IdleStatus /\ IdlePolyFile /\ IdleKeys
    /\ \E n \in 0..MaxClusters :
         \E rs \in [1..n -> RouteLists], ls \in [1..n -> Longitudes] :
            lk_clusters = [i \in 1..n |-> ClusterAt(i, rs[i], ls[i])]
    /\ lk_cluster_id \in {ClusterIds[i] : i \in 1..MaxClusters} \cup {"aks-xx"}
    /\ lk_nbroute \in {"singapore-4w", "singapore-8w"}
    /\ lk_ret = NoResult

CallLookup ==
    /\ pc = "start"
    /\ pc' = "done"
    /\ op' = "lookup"
    /\ lk_ret' = Ok(lookup(lk_clusters, lk_cluster_id, lk_nbroute))
    /\ UNCHANGED <<lk_clusters, lk_cluster_id, lk_nbroute, lkRest>>

NextLookup == CallLookup

SpecLookup == InitLookup /\ [][NextLookup]_vars

\* The positions of the caller's own cluster and of the serving clusters.
OwnPositions == {i \in 1..Len(lk_clusters) : lk_clusters[i].id = lk_cluster_id}
ServingPositions ==
    {i \in 1..Len(lk_clusters) :
        \E k \in 1..Len(lk_clusters[i].nbroutes) : lk_clusters[i].nbroutes[k] = lk_nbroute}
Own == lk_clusters[CHOOSE i \in OwnPositions : TRUE]
Gap(i) ==
    LET a == Own.location.lng
        b == lk_clusters[i].location.lng
    IN  IF a >= b THEN a - b ELSE b - a

\* C18: lookup returns None when cluster_id is no configured cluster or no
\* cluster serves the route; local = true without proxy address when the
\* caller's own cluster serves the route; and otherwise local = false with
\* the address of the serving cluster nearest to the caller's cluster, the
\* first one in configuration order among the equally near ones.
C18_LookupNearestServing ==
    (pc = "done" /\ op = "lookup") =>
        LET r == lk_ret.val
        IN  IF OwnPositions = {} \/ ServingPositions = {}
            THEN r = None
            ELSE IF OwnPositions \cap ServingPositions # {}
            THEN r = Some([local |-> TRUE, proxy_address |-> None])
            ELSE \E i \in ServingPositions :
                    /\ r = Some([local |-> FALSE,
                                 proxy_address |-> Some(lk_clusters[i].address)])
                    /\ \A j \in ServingPositions :
                          /\ Gap(i) <= Gap(j)
                          /\ Gap(i) = Gap(j) => i <= j

\* C18 witness: the caller's cluster does not serve the route, two serving
\* clusters are equally near, and the address of the first one is returned.
C18_Witness ==
    /\ pc = "done" /\ op = "lookup"
    /\ OwnPositions # {} /\ OwnPositions \cap ServingPositions = {}
    /\ \E i, j \in ServingPositions :
         /\ i < j /\ Gap(i) = Gap(j)
         /\ lk_clusters[i].location # lk_clusters[j].location
         /\ lk_ret.val = Some([local |-> FALSE,
                               proxy_address |-> Some(lk_clusters[i].address)])

(***************************************************************************)
(* Task-status cache, src/src/mdm_status.rs                                *)
(*                                                                         *)
(* Every STATUS.lock() section is one step.  evict() takes the lock once   *)
(* for its scan and once more for every removal, so other calls may run    *)
(* between its steps.  A task or chunk id is a sequence of characters.     *)
(***************************************************************************)

\* mdm_status.rs:10
EXPIRA_TIME_24H == 86400000

\* mdm_status.rs:59-61
uniq_key(task_id, chunk_id) == task_id \o <<":", ":">> \o chunk_id

\* str::split("::"), mdm_status.rs:64: the pieces between the matches of
\* "::", which are found from the left and do not overlap.
RECURSIVE split_colons_from(_, _, _)
split_colons_from(s, i, cur) ==
    IF i > Len(s) THEN <<cur>>
    ELSE IF i < Len(s) /\ s[i] = ":" /\ s[i + 1] = ":"
         THEN <<cur>> \o split_colons_from(s, i + 2, <<>>)
         ELSE split_colons_from(s, i + 1, Append(cur, s[i]))
split_colons(s) == split_colons_from(s, 1, <<>>)

\* mdm_status.rs:63-66
parse_uniq_key(key) ==
    LET items == split_colons(key)
    IN  IF Len(items) < 2 THEN Panic("index out of bounds")
        ELSE Ok(<<items[1], items[2]>>)

\* HashMap::remove
map_remove(m, k) == [x \in DOMAIN m \ {k} |-> m[x]]

\* Mutant: an entry expires when it is exactly 24 hours old.
is_expired_at_24h(now_time, start_time) == now_time - start_time >= EXPIRA_TIME_24H

\* mdm_status.rs:49
is_expired(now_time, start_time) == now_time - start_time > EXPIRA_TIME_24H

\* mdm_status.rs:13-33
get_status(m, task_id, chunk_id) ==
    LET key == uniq_key(task_id, chunk_id)
    IN  IF key \in DOMAIN m THEN m[key]
        ELSE [task_id |-> task_id, chunk_id |-> chunk_id, status |-> "NoExist",
              message |-> "", start_time |-> 0, output |-> None]

\* The ids and times of the calls.
TaskIds == {<<"a">>, <<"b">>}
ChunkIds == {<<"c">>}
Times == {0, 1, EXPIRA_TIME_24H + 1}

\* The statuses a caller stores.
StatusOf(task_id, chunk_id, start_time) ==
    [task_id |-> task_id, chunk_id |-> chunk_id, status |-> "Running",
     message |-> "", start_time |-> start_time, output |-> None]

InitStatus ==
    /\ pc = "start"
    /\ op = ""
    /\ IdleCore
    /\ IdleAreaConfig /\ IdleLoadPolygons /\ IdleErrorMessage /\ IdleBinaryEncode
    /\ IdleLookup /\ IdlePolyFile /\ IdleKeys
    /\ status_map = <<>>
    /\ clock = 0
    /\ ms_arg = <<>>
    /\ ms_ret = NoResult
    /\ ev_pc = "idle"
    /\ delete_list = {}
    /\ ev_now = 0
    /\ ev_before = <<>>
    /\ ev_dirty = FALSE

\* Time passes.
Tick ==
    /\ \E t \in Times : t > clock /\ clock' = t
    /\ op' = "tick"
    /\ UNCHANGED <<status_map, ms_arg, ms_ret, ev_pc, delete_list, ev_now, ev_before,
                   ev_dirty, msRest>>

\* mdm_status.rs:13-33
GetStatus ==
    /\ \E task_id \in TaskIds, chunk_id \in ChunkIds :
         /\ ms_arg' = <<task_id, chunk_id>>
         /\ ms_ret' = Ok(get_status(status_map, task_id, chunk_id))
    /\ op' = "get_status"
    /\ UNCHANGED <<status_map, clock, ev_pc, delete_list, ev_now, ev_before, ev_dirty,
                   msRest>>

\* mdm_status.rs:35-39
SetStatus ==
    /\ \E task_id \in TaskIds, chunk_id \in ChunkIds, start_time \in Times :
         /\ ms_arg' = <<task_id, chunk_id>>
         /\ status_map' = map_insert(status_map, uniq_key(task_id, chunk_id),
                                     StatusOf(task_id, chunk_id, start_time))
    /\ ev_dirty' = (ev_dirty \/ ev_pc = "removing")
    /\ op' = "set_status"
    /\ UNCHANGED <<clock, ms_ret, ev_pc, delete_list, ev_now, ev_before, msRest>>

\* mdm_status.rs:42-52: now_time and the scan under one lock.
EvictScan ==
    /\ ev_pc = "idle"
    /\ ev_pc' = "removing"
    /\ ev_now' = clock
    /\ delete_list' = {key \in DOMAIN status_map :
                          is_expired(clock, status_map[key].start_time)}
    /\ ev_before' = status_map
    /\ ev_dirty' = FALSE
    /\ op' = "evict_scan"
    /\ UNCHANGED <<status_map, clock, ms_arg, ms_ret, msRest>>

\* mdm_status.rs:54-56: one removal, under its own lock.
EvictRemove ==
    /\ ev_pc = "removing"
    /\ \E key \in delete_list :
         /\ status_map' = map_remove(status_map, key)
         /\ delete_list' = delete_list \ {key}
    /\ op' = "evict_remove"
    /\ UNCHANGED <<clock, ms_arg, ms_ret, ev_pc, ev_now, ev_before, ev_dirty, msRest>>

\* mdm_status.rs:57: evict returns.
EvictDone ==
    /\ ev_pc = "removing"
    /\ delete_list = {}
    /\ ev_pc' = "idle"
    /\ op' = "evict"
    /\ UNCHANGED <<status_map, clock, ms_arg, ms_ret, delete_list, ev_now, ev_before,
                   ev_dirty, msRest>>

NextStatus == Tick \/ GetStatus \/ SetStatus \/ EvictScan \/ EvictRemove \/ EvictDone

SpecStatus == InitStatus /\ [][NextStatus]_vars

\* The entries of m that are at most 24 hours old at time now.
Fresh(m, now) ==
    [key \in {k \in DOMAIN m : now - m[k].start_time <= 86400000} |-> m[key]]

C26_EvictRemovesOnlyExpired ==
    [][op' = "evict_remove" =>
          \A key \in DOMAIN status_map \ DOMAIN status_map' :
              clock - status_map[key].start_time > 86400000]_vars

(***************************************************************************)
(* The keys of the task-status cache, src/src/mdm_status.rs:59-66: ids are *)
(* any strings, among them strings that hold ':'.                          *)
(***************************************************************************)
AnyTaskIds == {<<"a">>, <<"a", ":">>}
AnyChunkIds == {<<"c">>, <<":", "c">>}
KeyTimes == {0, 1}

InitKeys ==
    /\ pc = "start"
    /\ op = ""
    /\ IdleCore
    /\ IdleAreaConfig /\ IdleLoadPolygons /\ IdleErrorMessage /\ IdleBinaryEncode
    /\ IdleLookup /\ IdlePolyFile
    /\ status_map = <<>>
    /\ clock = 0
    /\ ms_arg = <<>>
    /\ ms_ret = NoResult
    /\ ev_pc = "idle"
    /\ delete_list = {}
    /\ ev_now = 0
    /\ ev_before = <<>>
    /\ ev_dirty = FALSE
    /\ ks_last = <<>>
    /\ ks_parsed = NoResult

\* mdm_status.rs:35-39
SetStatusAny ==
    /\ \E task_id \in AnyTaskIds, chunk_id \in AnyChunkIds, start_time \in KeyTimes :
         /\ ms_arg' = <<task_id, chunk_id>>
         /\ status_map' = map_insert(status_map, uniq_key(task_id, chunk_id),
                                     StatusOf(task_id, chunk_id, start_time))
         /\ ks_last' = map_insert(ks_last, <<task_id, chunk_id>>,
                                  StatusOf(task_id, chunk_id, start_time))
    /\ op' = "set_status"
    /\ UNCHANGED <<pc, coreVars, acVars, lpVars, emVars, beVars, lkVars, pfVars>>
    /\ UNCHANGED <<clock, ms_ret, ev_pc, delete_list, ev_now, ev_before, ev_dirty, ks_parsed>>

\* mdm_status.rs:13-33
GetStatusAny ==
    /\ \E task_id \in AnyTaskIds, chunk_id \in AnyChunkIds :
         /\ ms_arg' = <<task_id, chunk_id>>
         /\ ms_ret' = Ok(get_status(status_map, task_id, chunk_id))
    /\ op' = "get_status"
    /\ UNCHANGED <<pc, coreVars, acVars, lpVars, emVars, beVars, lkVars, pfVars>>
    /\ UNCHANGED <<status_map, clock, ev_pc, delete_list, ev_now, ev_before, ev_dirty, ksVars>>

\* parse_uniq_key(uniq_key(task_id, chunk_id))
ParseUniqKey ==
    /\ \E task_id \in AnyTaskIds, chunk_id \in AnyChunkIds :
         /\ ms_arg' = <<task_id, chunk_id>>
         /\ ks_parsed' = parse_uniq_key(uniq_key(task_id, chunk_id))
    /\ op' = "parse_uniq_key"
    /\ UNCHANGED <<pc, coreVars, acVars, lpVars, emVars, beVars, lkVars, pfVars>>
    /\ UNCHANGED <<status_map, clock, ms_ret, ev_pc, delete_list, ev_now, ev_before, ev_dirty,
                   ks_last>>

NextKeys == SetStatusAny \/ GetStatusAny \/ ParseUniqKey

SpecKeys == InitKeys /\ [][NextKeys]_vars

\* C29: distinct pairs (task_id, chunk_id) have distinct keys, so get_status
\* returns for (t, c) the status that set_status stored last for exactly
\* (t, c), or NoExist when none was stored, and
\* parse_uniq_key(uniq_key(t, c)) = (t, c).
C29_KeysAreUniquePerPair ==
    /\ \A p \in DOMAIN ks_last :
          (ms_arg # <<>> /\ p # ms_arg) => uniq_key(p[1], p[2]) # uniq_key(ms_arg[1], ms_arg[2])
    /\ op = "get_status" =>
          IF ms_arg \in DOMAIN ks_last
          THEN ms_ret = Ok(ks_last[ms_arg])
          ELSE ms_ret.val.status = "NoExist"
    /\ op = "parse_uniq_key" => ks_parsed = Ok(ms_arg)

====
